---- MODULE Spec2Model ----
(***************************************************************************)
(* Role-membership reconciliation of cf-mgmt (package user, package space). *)
(* One SyncUsers call is a sequence of steps: list, group users, internal   *)
(* users, SAML users, removals.  The platform client, the UAA manager and   *)
(* the group resolver are the environment: their calls are recorded in      *)
(* `calls` and their outcomes are chosen nondeterministically.              *)
(***************************************************************************)
EXTENDS Naturals, Sequences, FiniteSets, TLC

\* ------------------------------------------------------------------ bounds
\* Total number of principals named by the three desired sources of a
\* directly called SyncUsers.
MaxDesired == 2

\* Number of space names the space list of an org config holds at most.
MaxSpaces == 2

\* ------------------------------------------------------------- name domain
Names == {"alice", "bob", "Bob", "carol"}

\* strings.ToLower on the name domain
ToLower(s) == IF s = "Bob" THEN "bob" ELSE IF s = "Dev" THEN "dev" ELSE s

\* strings.EqualFold
EqualFold(s, t) == ToLower(s) = ToLower(t)

Keys == {ToLower(n) : n \in Names}

\* Names a desired source may hold; "carol" is only ever a current member.
DesiredNames == {"alice", "bob", "Bob"}

\* Sets of user names in which no two names differ only by letter case
\* (the platform has one user per case-folded username).
UserSets(S) == {U \in SUBSET S : \A a, b \in U : ToLower(a) = ToLower(b) => a = b}

SeqsUpTo(S, n) == UNION {[1..k -> S] : k \in 0..n}

Range(s) == {s[i] : i \in DOMAIN s}

\* ------------------------------------------------------------------- roles
OrgKinds == {"org-billing-manager", "org-auditor", "org-manager"}
SpaceKinds == {"space-developer", "space-manager", "space-auditor"}
RoleKinds == OrgKinds \cup SpaceKinds

\* A GUID is a sequence of tokens; strings.Contains is token membership.
Contains(guid, token) == \E i \in DOMAIN guid : guid[i] = token

OrgName == "test-org"
SpaceName == "dev"
Groups == {"space-devs"}

RealOrgGUID == <<OrgName, "guid">>
RealSpaceGUID == <<SpaceName, "guid">>
DryRunSpaceGUID(spaceName) == <<spaceName, "dry-run-space-guid">>
DryRunOrgGUID(orgName) == <<orgName, "dry-run-org-guid">>

VARIABLES
    Peek,         \* DefaultManager.Peek
    LdapConfig,   \* DefaultManager.LdapConfig: "nil" or "set"
    uaaUsers,     \* keys of the identity directory map of the run
    uaaRemote,    \* identities held by the remote UAA
    roleMembers,  \* remote platform: role kind -> usernames holding the role
    orgUsers,     \* remote platform: usernames associated with the org
    ldapGroups,   \* group resolver: group name -> member usernames
    cmd,          \* the operation the run executes
    input,        \* UpdateUsersInput of the SyncUsers call in progress
    roleUsers,    \* working role-member map (its keys)
    listed,       \* keys returned by ListUsers of the call in progress
    ldapUsers,    \* members resolved for the call in progress
    ranged,       \* keys already visited by the range loop of RemoveUsers
    idx,          \* loop position in the current desired list
    pc,           \* position of the run
    err,          \* error value of the call in progress ("nil" if none)
    callNo,       \* number of the SyncUsers call in progress
    calls,        \* every call made so far, in order
    orgExists,    \* remote platform: the org exists
    remoteSpaces, \* remote platform: names of the spaces of the org
    cfg,          \* configuration: org configs, space configs, space lists
    cfgIdx,       \* position in the list of configs of the run
    roleIdx,      \* position among the three role bindings of the target
    target,       \* org or space found for the config in progress
    orgUserList,  \* cleanup: org users listed for the org
    usersInRoles, \* cleanup: keys of the users holding some role
    dryRun,       \* adds and removes logged by the dry-run that preceded the run
    order,        \* the order in which SyncUsers runs its three sync steps
    listedSpaces, \* names of the spaces ListSpaces returned for the org
    flags,        \* cli.Context: flag name -> value given on the command line
    ignoredOrgs   \* the map runImportConfig passes to ImportConfig, as a set

\* State of the command line, untouched by the managers.
cliVars == <<flags, ignoredOrgs>>

\* State of the run driver, untouched by the steps of SyncUsers.
driverVars == <<orgExists, remoteSpaces, cfg, cfgIdx, roleIdx, target,
                orgUserList, usersInRoles, dryRun, order, listedSpaces,
                   cliVars>>

vars == <<Peek, LdapConfig, uaaUsers, uaaRemote, roleMembers, orgUsers,
          ldapGroups, cmd, input, roleUsers, listed, ldapUsers, ranged, idx,
          pc, err, callNo, calls, driverVars>>

\* No command line: the managers are driven directly.
NoFlags == [name \in {} |-> <<>>]

\* ------------------------------------------------------------- call records
Call(op, kind, guid, user, ok) ==
    [op |-> op, kind |-> kind, guid |-> guid, user |-> user, ok |-> ok,
     sync |-> callNo]

ClientMutatingOps == {"AssociateOrgUserByUsername", "AssociateRoleByUsername",
                      "RemoveRoleByUsername", "RemoveOrgUserByUsername"}

\* ------------------------------------------------------- remote membership
IsMember(members, userName) ==
    \E m \in members : ToLower(m) = ToLower(userName)

AddMember(members, userName) ==
    IF IsMember(members, userName) THEN members ELSE members \cup {userName}

RemoveMember(members, userName) ==
    {m \in members : ToLower(m) # ToLower(userName)}

TargetGUID(in) == IF in.Kind \in SpaceKinds THEN in.SpaceGUID ELSE in.OrgGUID

\* ----------------------------------------------------------- list operations
userListToMap(users) == {ToLower(u) : u \in users}

\* The token ListSpace* / ListOrg* look for in the GUID in dry-run.
PlaceholderToken(kind) ==
    IF kind \in SpaceKinds THEN "dry-run-space-guid" ELSE "dry-run-org-guid"

IsPlaceholder(in) == Contains(TargetGUID(in), PlaceholderToken(in.Kind))

\* Variant: the list is read from the platform whatever the GUID.
SkipsList_Never(kind, guid) == FALSE

\* if m.Peek && strings.Contains(guid, "dry-run-...-guid") { return nil, nil }
SkipsList(kind, guid) == Peek /\ Contains(guid, PlaceholderToken(kind))

\* ListSpaceAuditors, ListSpaceDevelopers, ListSpaceManagers, ListOrgAuditors,
\* ListOrgBillingManagers, ListOrgManagers: the client call (which fails for a
\* GUID the platform does not know) and the map built from its answer.
ListRole(kind, guid) ==
    IF SkipsList(kind, guid)
    THEN {[calls |-> <<>>, err |-> "nil", map |-> {}]}
    ELSE {[calls |-> <<Call("ListRole", kind, guid, "", ok)>>,
           err |-> IF ok THEN "nil" ELSE "RemoteOperationError",
           map |-> IF ok THEN userListToMap(roleMembers[kind]) ELSE {}]
          : ok \in IF guid \in {RealOrgGUID, RealSpaceGUID} THEN BOOLEAN
                   ELSE {FALSE}}

\* Outcomes of input.ListUsers(input) (listSpace* / listOrg*).
ListUsers(in) ==
    {[calls |-> <<Call("ListUsers", in.Kind, TargetGUID(in), "", o.err = "nil")>>
                \o o.calls,
      err |-> o.err, map |-> o.map]
     : o \in ListRole(in.Kind, TargetGUID(in))}

\* ------------------------------------------------------------ add operations
\* Variant: the associations are made without looking at Peek.
AssociateCalls_Unguarded(in, userName, res) ==
    <<Call("AssociateOrgUserByUsername", in.Kind, in.OrgGUID, userName, TRUE),
      Call("AssociateRoleByUsername", in.Kind, TargetGUID(in), userName, TRUE)>>

\* Variant: the role association is made without the org association.
AssociateCalls_RoleOnly(in, userName, res) ==
    IF Peek \/ res = "org-failed" THEN <<>>
    ELSE <<Call("AssociateRoleByUsername", in.Kind, TargetGUID(in), userName,
                res = "ok")>>

\* AddUserToOrg followed by the role association (Associate* of the six kinds).
\* res: "org-failed", "role-failed" or "ok".
AssociateCalls(in, userName, res) ==
    IF Peek THEN <<>>
    ELSE IF res = "org-failed"
    THEN <<Call("AssociateOrgUserByUsername", in.Kind, in.OrgGUID, userName, FALSE)>>
    ELSE <<Call("AssociateOrgUserByUsername", in.Kind, in.OrgGUID, userName, TRUE),
           Call("AssociateRoleByUsername", in.Kind, TargetGUID(in), userName,
                res = "ok")>>

AddUser(in, userName) ==
    {[calls |-> <<Call("AddUser", in.Kind, TargetGUID(in), userName, res = "ok")>>
                \o AssociateCalls(in, userName, res),
      err |-> IF res = "ok" THEN "nil" ELSE "RemoteOperationError",
      orgUsers |-> IF Peek \/ res = "org-failed" THEN orgUsers
                   ELSE AddMember(orgUsers, userName),
      roleMembers |-> IF Peek \/ res # "ok" THEN roleMembers
                      ELSE [roleMembers EXCEPT
                              ![in.Kind] = AddMember(@, userName)]]
     : res \in IF Peek THEN {"ok"} ELSE {"org-failed", "role-failed", "ok"}}

\* --------------------------------------------------------- remove operations
RemoveCalls(in, userName, ok) ==
    IF Peek THEN <<>>
    ELSE <<Call("RemoveRoleByUsername", in.Kind, TargetGUID(in), userName, ok)>>

RemoveUser(in, userName) ==
    {[calls |-> <<Call("RemoveUser", in.Kind, TargetGUID(in), userName, ok)>>
                \o RemoveCalls(in, userName, ok),
      err |-> IF ok THEN "nil" ELSE "RemoteOperationError",
      roleMembers |-> IF Peek \/ ~ok THEN roleMembers
                      ELSE [roleMembers EXCEPT
                              ![in.Kind] = RemoveMember(@, userName)]]
     : ok \in IF Peek THEN {TRUE} ELSE BOOLEAN}

\* ------------------------------------------------------------ SyncUsers steps
\* SyncUsers calls SyncLdapUsers, SyncInternalUsers, SyncSamlUsers, in this
\* order, and RemoveUsers last.
CodeOrder == <<"SyncLdapUsers", "SyncInternalUsers", "SyncSamlUsers">>

\* The step SyncUsers runs after a sync step has returned without error.
StepAfter(step) ==
    LET i == CHOOSE j \in DOMAIN order : order[j] = step
    IN IF i < Len(order) THEN order[i + 1] ELSE "RemoveUsers"

\* SyncUsers: roleUsers, err := updateUsersInput.ListUsers(updateUsersInput)
SyncUsersList ==
    /\ pc = "SyncUsers"
    /\ \E o \in ListUsers(input) :
         /\ calls' = calls \o o.calls
         /\ err' = o.err
         /\ roleUsers' = o.map
         /\ listed' = o.map
         /\ pc' = IF o.err = "nil" THEN order[1] ELSE "return"
    /\ idx' = 1
    /\ UNCHANGED <<Peek, LdapConfig, uaaUsers, uaaRemote, roleMembers, orgUsers,
                   ldapGroups, cmd, input, ldapUsers, ranged, callNo,
                   driverVars>>

\* Members the group resolver returns for the configured group names.
ResolveMembers(groupNames) ==
    IF groupNames = <<>> THEN <<>> ELSE ldapGroups[groupNames[1]]

\* SyncLdapUsers, first half: resolve the group names of the input.
SyncLdapUsersResolve ==
    /\ pc = "SyncLdapUsers"
    /\ \E ok \in IF input.LdapGroupNames = <<>> THEN {TRUE} ELSE BOOLEAN :
         /\ ldapUsers' = IF ok THEN ResolveMembers(input.LdapGroupNames) ELSE <<>>
         /\ err' = IF ok THEN "nil" ELSE "GroupLookupError"
         /\ pc' = IF ok THEN "SyncLdapUsersLoop" ELSE "return"
         /\ calls' = IF input.LdapGroupNames = <<>> THEN calls
                     ELSE Append(calls, Call("ResolveMembers", input.Kind,
                                             TargetGUID(input), "", ok))
    /\ idx' = 1
    /\ UNCHANGED <<Peek, LdapConfig, uaaUsers, uaaRemote, roleMembers, orgUsers,
                   ldapGroups, cmd, input, roleUsers, listed, ranged, callNo,
                   driverVars>>

\* Variant: the existence test always passes.
UserExists_Always(directory, lowerUserID) == TRUE

\* The tests of one loop iteration of SyncInternalUsers / SyncSamlUsers.
UserExists(directory, lowerUserID) == lowerUserID \in directory

\* Variant: the working map is never consulted.
InRole_Never(members, lowerUserID) == FALSE

InRole(members, lowerUserID) == lowerUserID \in members

\* Variant: a matched principal stays in the working map.
MarkSatisfied_Keep(members, lowerUserID) == members

\* delete(roleUsers, lowerUserID)
MarkSatisfied(members, lowerUserID) == members \ {lowerUserID}

\* Variant: a failed add does not end the step.
SyncOne_IgnoreError(userID, before) ==
    IF ~InRole(roleUsers, ToLower(userID))
    THEN \E o \in AddUser(input, userID) :
           /\ calls' = calls \o before \o o.calls
           /\ err' = o.err
           /\ orgUsers' = o.orgUsers
           /\ roleMembers' = o.roleMembers
           /\ roleUsers' = roleUsers
           /\ pc' = pc
           /\ idx' = idx + 1
    ELSE /\ calls' = calls \o before
         /\ roleUsers' = MarkSatisfied(roleUsers, ToLower(userID))
         /\ idx' = idx + 1
         /\ UNCHANGED <<err, orgUsers, roleMembers, pc>>

\* One iteration of the add / mark-satisfied step on userID; `before` holds
\* the calls the iteration has already made.
SyncOne(userID, before) ==
    IF ~InRole(roleUsers, ToLower(userID))
    THEN \E o \in AddUser(input, userID) :
           /\ calls' = calls \o before \o o.calls
           /\ err' = o.err
           /\ orgUsers' = o.orgUsers
           /\ roleMembers' = o.roleMembers
           /\ roleUsers' = roleUsers
           /\ pc' = IF o.err = "nil" THEN pc ELSE "return"
           /\ idx' = IF o.err = "nil" THEN idx + 1 ELSE idx
    ELSE /\ calls' = calls \o before
         /\ roleUsers' = MarkSatisfied(roleUsers, ToLower(userID))
         /\ idx' = idx + 1
         /\ UNCHANGED <<err, orgUsers, roleMembers, pc>>

\* SyncLdapUsers, second half: each resolved member follows the logic of
\* SyncInternalUsers.
SyncLdapUsersLoop ==
    /\ pc = "SyncLdapUsersLoop"
    /\ IF idx > Len(ldapUsers)
       THEN /\ pc' = StepAfter("SyncLdapUsers")
            /\ idx' = 1
            /\ UNCHANGED <<calls, err, orgUsers, roleMembers, roleUsers>>
       ELSE IF ~UserExists(uaaUsers, ToLower(ldapUsers[idx]))
       THEN /\ err' = "UnknownGroupMember"
            /\ pc' = "return"
            /\ UNCHANGED <<calls, orgUsers, roleMembers, roleUsers, idx>>
       ELSE SyncOne(ldapUsers[idx], <<>>)
    /\ UNCHANGED <<Peek, LdapConfig, uaaUsers, uaaRemote, ldapGroups, cmd, input,
                   listed, ldapUsers, ranged, callNo,
                   driverVars>>

\* SyncInternalUsers: one iteration, or the return after the last one.
SyncInternalUsers ==
    /\ pc = "SyncInternalUsers"
    /\ IF idx > Len(input.Users)
       THEN /\ pc' = StepAfter("SyncInternalUsers")
            /\ idx' = 1
            /\ UNCHANGED <<calls, err, orgUsers, roleMembers, roleUsers>>
       ELSE IF ~UserExists(uaaUsers, ToLower(input.Users[idx]))
       THEN /\ err' = "UnknownPrincipal"
            /\ pc' = "return"
            /\ UNCHANGED <<calls, orgUsers, roleMembers, roleUsers, idx>>
       ELSE SyncOne(input.Users[idx], <<>>)
    /\ UNCHANGED <<Peek, LdapConfig, uaaUsers, uaaRemote, ldapGroups, cmd, input,
                   listed, ldapUsers, ranged, callNo,
                   driverVars>>

\* UAAMgr.CreateExternalUser: in dry-run it is logged and succeeds without
\* touching the remote UAA; otherwise it may fail.
CreateExternalUser(userName) ==
    IF Peek
    THEN {[ok |-> TRUE, uaaRemote |-> uaaRemote]}
    ELSE {[ok |-> ok,
           uaaRemote |-> IF ok THEN AddMember(uaaRemote, userName) ELSE uaaRemote]
          : ok \in BOOLEAN}

\* Variant: no provisioning call in dry-run.
CallsCreateExternalUser_UnlessPeek(directory, lowerUserEmail) ==
    ~Peek /\ lowerUserEmail \notin directory

\* SyncSamlUsers calls the UAA manager for every absent principal.
CallsCreateExternalUser(directory, lowerUserEmail) ==
    ~UserExists(directory, lowerUserEmail)

\* Variant: the provisioned user is not recorded in the directory map.
DirectoryInsert_None(directory, userEmail) == directory

\* uaaUsers[userEmail] = &uaaclient.User{...}
DirectoryInsert(directory, userEmail) == directory \cup {userEmail}

\* Variant: a failed provisioning ends the call with an error.
SkipPrincipal_Fatal(created) ==
    /\ calls' = Append(calls, created)
    /\ err' = "ProvisioningError"
    /\ pc' = "return"
    /\ UNCHANGED <<idx, orgUsers, roleMembers, roleUsers, uaaUsers>>

\* lo.G.Error("Unable to create user", userEmail); continue
SkipPrincipal(created) ==
    /\ calls' = Append(calls, created)
    /\ idx' = idx + 1
    /\ UNCHANGED <<err, orgUsers, roleMembers, roleUsers, uaaUsers, pc>>

\* SyncSamlUsers: one iteration, or the return after the last one.
SyncSamlUsers ==
    /\ pc = "SyncSamlUsers"
    /\ IF idx > Len(input.SamlUsers)
       THEN /\ pc' = StepAfter("SyncSamlUsers")
            /\ idx' = 1
            /\ UNCHANGED <<calls, err, orgUsers, roleMembers, roleUsers,
                           uaaUsers, uaaRemote>>
       ELSE LET userEmail == input.SamlUsers[idx] IN
         IF CallsCreateExternalUser(uaaUsers, ToLower(userEmail))
         THEN IF LdapConfig = "nil"
              THEN \* m.LdapConfig.Origin on a nil pointer
                   /\ pc' = "panic"
                   /\ UNCHANGED <<calls, err, orgUsers, roleMembers, roleUsers,
                                  uaaUsers, uaaRemote, idx>>
              ELSE \E c \in CreateExternalUser(userEmail) :
                     LET created == Call("CreateExternalUser", input.Kind,
                                         TargetGUID(input), userEmail, c.ok) IN
                     /\ uaaRemote' = c.uaaRemote
                     /\ IF ~c.ok
                        THEN SkipPrincipal(created)
                        ELSE /\ uaaUsers' = DirectoryInsert(uaaUsers, userEmail)
                             /\ SyncOne(userEmail, <<created>>)
         ELSE /\ SyncOne(userEmail, <<>>)
              /\ UNCHANGED <<uaaUsers, uaaRemote>>
    /\ UNCHANGED <<Peek, LdapConfig, ldapGroups, cmd, input, listed, ldapUsers,
                   ranged, callNo,
                   driverVars>>

\* Variant: a dry-run skips the removal loop.
ShouldRemove_UnlessPeek(in) == in.RemoveUsers /\ ~Peek

\* Variant: the removal loop runs whatever the flag says.
ShouldRemove_Always(in) == TRUE

\* if updateUsersInput.RemoveUsers
ShouldRemove(in) == in.RemoveUsers

\* RemoveUsers: one iteration of the range loop over roleUsers (in any
\* order), or the return.
RemoveUsers ==
    /\ pc = "RemoveUsers"
    /\ IF ShouldRemove(input) /\ roleUsers \ ranged # {}
       THEN \E roleUser \in roleUsers \ ranged :
              \E o \in RemoveUser(input, roleUser) :
                /\ calls' = calls \o o.calls
                /\ err' = o.err
                /\ roleMembers' = o.roleMembers
                /\ ranged' = ranged \cup {roleUser}
                /\ pc' = IF o.err = "nil" THEN pc ELSE "return"
       ELSE /\ pc' = "return"
            /\ UNCHANGED <<calls, err, roleMembers, ranged>>
    /\ UNCHANGED <<Peek, LdapConfig, uaaUsers, uaaRemote, orgUsers, ldapGroups,
                   cmd, input, roleUsers, listed, ldapUsers, idx, callNo,
                   driverVars>>

\* The steps of one SyncUsers call.
SyncUsers ==
    \/ SyncUsersList
    \/ SyncLdapUsersResolve
    \/ SyncLdapUsersLoop
    \/ SyncInternalUsers
    \/ SyncSamlUsers
    \/ RemoveUsers

\* No dry-run preceded the run.
NoDryRun == [done |-> FALSE, adds |-> {}, removes |-> {}]

\* No org or space found yet.
NoTarget == [Name |-> "", Guid |-> <<>>, OrganizationGuid |-> <<>>]

\* Group member lists hold each member once.
IsDistinct(seq) ==
    \A i, j \in DOMAIN seq : ToLower(seq[i]) = ToLower(seq[j]) => i = j

\* -------------------------------------------------- a directly called SyncUsers
\* Role kinds a direct SyncUsers call is made for.
SyncKinds == {"space-developer", "org-manager"}

DesiredCount(in, groups) ==
    Len(in.Users) + Len(in.SamlUsers) + Len(groups["space-devs"])

SyncInputs(peek) ==
    {[Kind |-> k,
      SpaceName |-> IF k \in SpaceKinds THEN SpaceName ELSE "",
      SpaceGUID |-> IF k \notin SpaceKinds THEN <<>>
                    ELSE IF ph THEN DryRunSpaceGUID(SpaceName) ELSE RealSpaceGUID,
      OrgName |-> OrgName,
      OrgGUID |-> IF ph THEN DryRunOrgGUID(OrgName) ELSE RealOrgGUID,
      LdapGroupNames |-> g, Users |-> u, SamlUsers |-> s, RemoveUsers |-> r]
     : k \in SyncKinds, ph \in IF peek THEN BOOLEAN ELSE {FALSE},
       g \in SeqsUpTo(Groups, 1), u \in SeqsUpTo(DesiredNames, MaxDesired),
       s \in SeqsUpTo(DesiredNames, MaxDesired), r \in BOOLEAN}

InitSyncCall ==
    /\ Peek \in BOOLEAN
    /\ LdapConfig = "set"
    /\ uaaRemote \in {U \cup {"carol"} : U \in SUBSET {"alice", "bob"}}
    /\ uaaUsers = userListToMap(uaaRemote)
    /\ ldapGroups \in [Groups -> {m \in SeqsUpTo(DesiredNames, MaxDesired) :
                                    IsDistinct(m)}]
    /\ input \in SyncInputs(Peek)
    /\ IsPlaceholder(input) => (Peek /\ input.Kind \in SpaceKinds)
    /\ input.LdapGroupNames = <<>> => ldapGroups["space-devs"] = <<>>
    /\ DesiredCount(input, ldapGroups) <= MaxDesired
    /\ \E members \in UserSets(Names) :
         /\ IsPlaceholder(input) => members = {}
         /\ roleMembers = [k \in RoleKinds |->
                             IF k = input.Kind THEN members ELSE {}]
         /\ orgUsers = members
    /\ cmd = "SyncUsers"
    /\ roleUsers = {}
    /\ listed = {}
    /\ ldapUsers = <<>>
    /\ ranged = {}
    /\ idx = 1
    /\ pc = "SyncUsers"
    /\ err = "nil"
    /\ callNo = 1
    /\ calls = <<>>
    /\ orgExists = TRUE
    /\ remoteSpaces = IF IsPlaceholder(input) THEN {} ELSE {SpaceName}
    /\ cfg = [orgs |-> <<>>, spaces |-> <<>>,
                spaceLists |-> <<>>]
    /\ cfgIdx = 1
    /\ roleIdx = 1
    /\ target = NoTarget
    /\ orgUserList = {}
    /\ usersInRoles = {}
    /\ dryRun = NoDryRun
    /\ listedSpaces = {}
    /\ flags = NoFlags
    /\ ignoredOrgs = {}

\* A directly called SyncUsers runs its steps in the order of the code.
InitSync == InitSyncCall /\ order = CodeOrder

\* The caller of a direct SyncUsers: after a successful non-dry-run call it
\* calls SyncUsers once more with the same input.
SyncReturn ==
    /\ pc = "return"
    /\ cmd = "SyncUsers"
    /\ IF err = "nil" /\ ~Peek /\ callNo = 1
       THEN /\ pc' = "SyncUsers"
            /\ callNo' = 2
            /\ roleUsers' = {}
            /\ listed' = {}
            /\ ldapUsers' = <<>>
            /\ ranged' = {}
            /\ idx' = 1
       ELSE /\ pc' = "done"
            /\ UNCHANGED <<callNo, roleUsers, listed, ldapUsers, ranged, idx>>
    /\ UNCHANGED <<Peek, LdapConfig, uaaUsers, uaaRemote, roleMembers, orgUsers,
                   ldapGroups, cmd, input, err, calls,
                   driverVars>>

NextSync == SyncUsers \/ SyncReturn

SpecSync == InitSync /\ [][NextSync]_vars

\* ------------------------------------------------------------------ run driver
OrgRoleOrder == <<"org-billing-manager", "org-auditor", "org-manager">>
\* Variant: the space roles are reconciled in the opposite order.
SpaceRoleOrder_Reversed == <<"space-auditor", "space-manager", "space-developer">>

SpaceRoleOrder == <<"space-developer", "space-manager", "space-auditor">>

\* OrgMgr.FindOrg: the org reference, or a not-found error.
FindOrg(orgName) ==
    IF orgExists
    THEN {[calls |-> <<Call("FindOrg", "", <<>>, orgName, TRUE)>>, err |-> "nil",
           found |-> [Name |-> orgName, Guid |-> RealOrgGUID,
                      OrganizationGuid |-> <<>>]]}
    ELSE {[calls |-> <<Call("FindOrg", "", <<>>, orgName, FALSE)>>,
           err |-> "NotFoundError", found |-> NoTarget]}

\* Names of the spaces Client.ListSpacesByQuery returns for the org.
RemoteSpaces == remoteSpaces

\* The space the space configs of a run name exists in the org.
spaceExists == SpaceName \in RemoteSpaces

\* Variant: a missing space yields the placeholder in every mode.
FindSpace_Placeholder(orgName, spaceName) ==
    IF ~orgExists
    THEN {[calls |-> <<Call("GetOrgGUID", "", <<>>, orgName, FALSE)>>,
           err |-> "NotFoundError", found |-> NoTarget]}
    ELSE {[calls |-> <<Call("GetOrgGUID", "", <<>>, orgName, TRUE),
                       Call("ListSpaces", "", RealOrgGUID, "", TRUE)>>,
           err |-> "nil",
           found |-> IF spaceName \in RemoteSpaces
                     THEN [Name |-> spaceName, Guid |-> RealSpaceGUID,
                           OrganizationGuid |-> RealOrgGUID]
                     ELSE [Name |-> spaceName,
                           Guid |-> DryRunSpaceGUID(spaceName),
                           OrganizationGuid |-> DryRunOrgGUID(orgName)]]}

\* space.DefaultManager.FindSpace
FindSpace(orgName, spaceName) ==
    IF ~orgExists
    THEN {[calls |-> <<Call("GetOrgGUID", "", <<>>, orgName, FALSE)>>,
           err |-> "NotFoundError", found |-> NoTarget]}
    ELSE {[calls |-> <<Call("GetOrgGUID", "", <<>>, orgName, TRUE),
                       Call("ListSpaces", "", RealOrgGUID, "", ok)>>,
           err |-> IF ~ok THEN "RemoteOperationError"
                   ELSE IF spaceName \in RemoteSpaces \/ Peek THEN "nil"
                   ELSE "NotFoundError",
           found |-> IF ~ok THEN NoTarget
                     ELSE IF spaceName \in RemoteSpaces
                     THEN [Name |-> spaceName, Guid |-> RealSpaceGUID,
                           OrganizationGuid |-> RealOrgGUID]
                     ELSE IF Peek
                     THEN [Name |-> spaceName,
                           Guid |-> DryRunSpaceGUID(spaceName),
                           OrganizationGuid |-> DryRunOrgGUID(orgName)]
                     ELSE NoTarget]
          : ok \in BOOLEAN}

\* The UpdateUsersInput updateOrgUsers builds for one org role.
OrgBinding(config, org, kind) ==
    [Kind |-> kind, SpaceName |-> "", SpaceGUID |-> <<>>,
     OrgName |-> org.Name, OrgGUID |-> org.Guid,
     LdapGroupNames |-> config.Roles[kind].LdapGroupNames,
     Users |-> config.Roles[kind].Users,
     SamlUsers |-> config.Roles[kind].SamlUsers,
     RemoveUsers |-> config.RemoveUsers]

\* The UpdateUsersInput updateSpaceUsers builds for one space role.
SpaceBinding(config, space, kind) ==
    [Kind |-> kind, SpaceName |-> space.Name, SpaceGUID |-> space.Guid,
     OrgName |-> config.Org, OrgGUID |-> space.OrganizationGuid,
     LdapGroupNames |-> config.Roles[kind].LdapGroupNames,
     Users |-> config.Roles[kind].Users,
     SamlUsers |-> config.Roles[kind].SamlUsers,
     RemoveUsers |-> config.RemoveUsers]

\* The working state of a SyncUsers call about to start.
StartSync(in) ==
    /\ input' = in
    /\ callNo' = callNo + 1
    /\ roleUsers' = {}
    /\ listed' = {}
    /\ ldapUsers' = <<>>
    /\ ranged' = {}
    /\ idx' = 1
    /\ pc' = "SyncUsers"

\* UAAMgr.ListUsers and Cfg.Get*Configs at the start of a run; `res` is "ok",
\* "list-failed" or "config-failed".
LoadRun(res, configs, first) ==
    /\ uaaUsers' = IF res = "list-failed" THEN {} ELSE userListToMap(uaaRemote)
    /\ err' = CASE res = "ok" -> "nil"
                [] res = "list-failed" -> "RemoteOperationError"
                [] OTHER -> "ConfigurationError"
    /\ pc' = IF res = "ok" /\ configs # <<>> THEN first ELSE "done"
    /\ cfgIdx' = 1
    /\ UNCHANGED <<Peek, LdapConfig, uaaRemote, roleMembers, orgUsers,
                   ldapGroups, cmd, input, roleUsers, listed, ldapUsers, ranged,
                   idx, callNo, calls, orgExists, remoteSpaces, cfg, roleIdx,
                   target, orgUserList, usersInRoles, dryRun, order, listedSpaces,
                   cliVars>>

\* UpdateOrgUsers, up to the loop over the org configs.
UpdateOrgUsers ==
    /\ pc = "UpdateOrgUsers"
    /\ \E res \in {"ok", "list-failed", "config-failed"} :
         LoadRun(res, cfg.orgs, "updateOrgUsers")

\* UpdateSpaceUsers, up to the loop over the space configs.
UpdateSpaceUsers ==
    /\ pc = "UpdateSpaceUsers"
    /\ \E res \in {"ok", "list-failed", "config-failed"} :
         LoadRun(res, cfg.spaces, "updateSpaceUsers")

\* updateOrgUsers, up to its first SyncUsers call.
updateOrgUsers ==
    /\ pc = "updateOrgUsers"
    /\ \E f \in FindOrg(cfg.orgs[cfgIdx].Org) :
         /\ calls' = calls \o f.calls
         /\ err' = f.err
         /\ target' = f.found
         /\ roleIdx' = 1
         /\ IF f.err = "nil"
            THEN StartSync(OrgBinding(cfg.orgs[cfgIdx], f.found, OrgRoleOrder[1]))
            ELSE /\ pc' = "done"
                 /\ UNCHANGED <<input, callNo, roleUsers, listed, ldapUsers,
                                ranged, idx>>
    /\ UNCHANGED <<Peek, LdapConfig, uaaUsers, uaaRemote, roleMembers, orgUsers,
                   ldapGroups, cmd, orgExists, remoteSpaces, cfg, cfgIdx,
                   orgUserList, usersInRoles, dryRun, order, listedSpaces,
                   cliVars>>

\* updateSpaceUsers, up to its first SyncUsers call.
updateSpaceUsers ==
    /\ pc = "updateSpaceUsers"
    /\ \E f \in FindSpace(cfg.spaces[cfgIdx].Org, cfg.spaces[cfgIdx].Space) :
         /\ calls' = calls \o f.calls
         /\ err' = f.err
         /\ target' = f.found
         /\ roleIdx' = 1
         /\ IF f.err = "nil"
            THEN StartSync(SpaceBinding(cfg.spaces[cfgIdx], f.found,
                                        SpaceRoleOrder[1]))
            ELSE /\ pc' = "done"
                 /\ UNCHANGED <<input, callNo, roleUsers, listed, ldapUsers,
                                ranged, idx>>
    /\ UNCHANGED <<Peek, LdapConfig, uaaUsers, uaaRemote, roleMembers, orgUsers,
                   ldapGroups, cmd, orgExists, remoteSpaces, cfg, cfgIdx,
                   orgUserList, usersInRoles, dryRun, order, listedSpaces,
                   cliVars>>

\* Variant: the run goes on to the next binding whatever SyncUsers returned.
AfterSync_Continue(configs, nextBinding, again) ==
    /\ IF roleIdx < 3
       THEN /\ StartSync(nextBinding)
            /\ roleIdx' = roleIdx + 1
            /\ UNCHANGED cfgIdx
       ELSE /\ pc' = IF cfgIdx < Len(configs) THEN again ELSE "done"
            /\ cfgIdx' = IF cfgIdx < Len(configs) THEN cfgIdx + 1 ELSE cfgIdx
            /\ UNCHANGED <<input, callNo, roleUsers, listed, ldapUsers, ranged,
                           idx, roleIdx>>
    /\ UNCHANGED <<Peek, LdapConfig, uaaUsers, uaaRemote, roleMembers, orgUsers,
                   ldapGroups, cmd, err, calls, orgExists, remoteSpaces, cfg,
                   target, orgUserList, usersInRoles, dryRun, order, listedSpaces,
                   cliVars>>

\* What follows the return of a SyncUsers call in updateOrgUsers /
\* updateSpaceUsers: the error is returned, or the next role binding, the next
\* config or the end of the run follows.
AfterSync(configs, nextBinding, again) ==
    /\ IF err # "nil"
       THEN /\ pc' = "done"
            /\ UNCHANGED <<input, callNo, roleUsers, listed, ldapUsers, ranged,
                           idx, roleIdx, cfgIdx>>
       ELSE IF roleIdx < 3
       THEN /\ StartSync(nextBinding)
            /\ roleIdx' = roleIdx + 1
            /\ UNCHANGED cfgIdx
       ELSE /\ pc' = IF cfgIdx < Len(configs) THEN again ELSE "done"
            /\ cfgIdx' = IF cfgIdx < Len(configs) THEN cfgIdx + 1 ELSE cfgIdx
            /\ UNCHANGED <<input, callNo, roleUsers, listed, ldapUsers, ranged,
                           idx, roleIdx>>
    /\ UNCHANGED <<Peek, LdapConfig, uaaUsers, uaaRemote, roleMembers, orgUsers,
                   ldapGroups, cmd, err, calls, orgExists, remoteSpaces, cfg,
                   target, orgUserList, usersInRoles, dryRun, order, listedSpaces,
                   cliVars>>

\* updateOrgUsers after a SyncUsers call.
updateOrgUsersNext ==
    /\ pc = "return"
    /\ cmd = "UpdateOrgUsers"
    /\ AfterSync(cfg.orgs,
                 OrgBinding(cfg.orgs[cfgIdx], target,
                            OrgRoleOrder[IF roleIdx < 3 THEN roleIdx + 1 ELSE 3]),
                 "updateOrgUsers")

\* updateSpaceUsers after a SyncUsers call.
updateSpaceUsersNext ==
    /\ pc = "return"
    /\ cmd = "UpdateSpaceUsers"
    /\ AfterSync(cfg.spaces,
                 SpaceBinding(cfg.spaces[cfgIdx], target,
                              SpaceRoleOrder[IF roleIdx < 3 THEN roleIdx + 1
                                             ELSE 3]),
                 "updateSpaceUsers")

\* -------------------------------------------------------------------- cleanup
\* appendToMap
appendToMap(source, append) == source \cup append

\* The role lists usersInOrgRoles reads for the org ...
OrgRoleLists(orgGUID) ==
    <<[kind |-> "org-auditor", guid |-> orgGUID],
      [kind |-> "org-manager", guid |-> orgGUID],
      [kind |-> "org-billing-manager", guid |-> orgGUID]>>

\* ... and for one space of it: auditors, auditors again, managers.
SpaceRoleLists(spaceGUID) ==
    <<[kind |-> "space-auditor", guid |-> spaceGUID],
      [kind |-> "space-auditor", guid |-> spaceGUID],
      [kind |-> "space-manager", guid |-> spaceGUID]>>

\* Reads the role lists from position i on, stopping at the first failure.
RECURSIVE CollectRoles(_, _, _, _)
CollectRoles(lists, i, userMap, made) ==
    IF i > Len(lists)
    THEN {[calls |-> made, err |-> "nil", map |-> userMap]}
    ELSE UNION {IF o.err # "nil"
                THEN {[calls |-> made \o o.calls, err |-> o.err, map |-> {}]}
                ELSE CollectRoles(lists, i + 1, appendToMap(userMap, o.map),
                                  made \o o.calls)
                : o \in ListRole(lists[i].kind, lists[i].guid)}

\* usersInOrgRoles: outcomes [calls, err, map].
usersInOrgRoles(orgGUID) ==
    UNION {IF a.err # "nil" THEN {a}
           ELSE UNION {IF ~ok
                       THEN {[calls |-> Append(a.calls,
                                  Call("ListSpaces", "", orgGUID, "", FALSE)),
                              err |-> "RemoteOperationError", map |-> {}]}
                       ELSE CollectRoles(
                              IF spaceExists THEN SpaceRoleLists(RealSpaceGUID)
                              ELSE <<>>,
                              1, a.map,
                              Append(a.calls,
                                     Call("ListSpaces", "", orgGUID, "", TRUE)))
                       : ok \in BOOLEAN}
           : a \in CollectRoles(OrgRoleLists(orgGUID), 1, {}, <<>>)}

\* CleanupOrgUsers, up to the loop over the org configs.
CleanupOrgUsers ==
    /\ pc = "CleanupOrgUsers"
    /\ \E ok \in BOOLEAN :
         /\ err' = IF ok THEN "nil" ELSE "ConfigurationError"
         /\ pc' = IF ok /\ cfg.orgs # <<>> THEN "cleanupOrgUsers" ELSE "done"
    /\ cfgIdx' = 1
    /\ UNCHANGED <<Peek, LdapConfig, uaaUsers, uaaRemote, roleMembers, orgUsers,
                   ldapGroups, cmd, input, roleUsers, listed, ldapUsers, ranged,
                   idx, callNo, calls, orgExists, remoteSpaces, cfg, roleIdx,
                   target, orgUserList, usersInRoles, dryRun, order, listedSpaces,
                   cliVars>>

\* cleanupOrgUsers, up to the loop over the org users: FindOrg, ListOrgUsers
\* and usersInOrgRoles.
cleanupOrgUsers ==
    /\ pc = "cleanupOrgUsers"
    /\ \E f \in FindOrg(cfg.orgs[cfgIdx].Org) :
         /\ target' = f.found
         /\ IF f.err # "nil"
            THEN /\ calls' = calls \o f.calls
                 /\ err' = f.err
                 /\ pc' = "done"
                 /\ UNCHANGED <<orgUserList, usersInRoles>>
            ELSE \E ok \in BOOLEAN :
                   LET listOrg == Call("ListOrgUsers", "", f.found.Guid, "", ok) IN
                   IF ~ok
                   THEN /\ calls' = calls \o f.calls \o <<listOrg>>
                        /\ err' = "RemoteOperationError"
                        /\ pc' = "done"
                        /\ UNCHANGED <<orgUserList, usersInRoles>>
                   ELSE \E r \in usersInOrgRoles(f.found.Guid) :
                          /\ calls' = calls \o f.calls \o <<listOrg>> \o r.calls
                          /\ err' = r.err
                          /\ orgUserList' = orgUsers
                          /\ usersInRoles' = r.map
                          /\ pc' = IF r.err = "nil" THEN "cleanupOrgUsersLoop"
                                   ELSE "done"
    /\ ranged' = {}
    /\ UNCHANGED <<Peek, LdapConfig, uaaUsers, uaaRemote, roleMembers, orgUsers,
                   ldapGroups, cmd, input, roleUsers, listed, ldapUsers, idx,
                   callNo, orgExists, remoteSpaces, cfg, cfgIdx, roleIdx,
                   dryRun, order, listedSpaces,
                   cliVars>>

\* if _, ok := usersInRoles[strings.ToLower(orgUser.Username)]; !ok
HoldsNoRole(inRoles, userName) == ToLower(userName) \notin inRoles

\* cleanupOrgUsers: one iteration of the loop over the listed org users, or
\* the return after the last one.
cleanupOrgUsersLoop ==
    /\ pc = "cleanupOrgUsersLoop"
    /\ IF orgUserList \ ranged = {}
       THEN /\ pc' = IF cfgIdx < Len(cfg.orgs) THEN "cleanupOrgUsers" ELSE "done"
            /\ cfgIdx' = IF cfgIdx < Len(cfg.orgs) THEN cfgIdx + 1 ELSE cfgIdx
            /\ UNCHANGED <<calls, err, orgUsers, ranged>>
       ELSE \E orgUser \in orgUserList \ ranged :
              /\ ranged' = ranged \cup {orgUser}
              /\ UNCHANGED cfgIdx
              /\ IF ~HoldsNoRole(usersInRoles, orgUser)
                 THEN UNCHANGED <<calls, err, orgUsers, pc>>
                 ELSE IF Peek
                 THEN /\ calls' = Append(calls, Call("CleanupUser", "",
                                                     target.Guid, orgUser, TRUE))
                      /\ UNCHANGED <<err, orgUsers, pc>>
                 ELSE \E ok \in BOOLEAN :
                        /\ calls' = calls \o
                             <<Call("CleanupUser", "", target.Guid, orgUser, ok),
                               Call("RemoveOrgUserByUsername", "", target.Guid,
                                    orgUser, ok)>>
                        /\ err' = IF ok THEN "nil" ELSE "RemoteOperationError"
                        /\ orgUsers' = IF ok THEN RemoveMember(orgUsers, orgUser)
                                       ELSE orgUsers
                        /\ pc' = IF ok THEN pc ELSE "done"
    /\ UNCHANGED <<Peek, LdapConfig, uaaUsers, uaaRemote, roleMembers,
                   ldapGroups, cmd, input, roleUsers, listed, ldapUsers, idx,
                   callNo, orgExists, remoteSpaces, cfg, roleIdx, target,
                   orgUserList, usersInRoles, dryRun, order, listedSpaces,
                   cliVars>>

\* ------------------------------------------------------------------- the runs
\* Desired memberships a configured role may carry in a run.
RunDesired ==
    {[Users |-> <<"alice">>, SamlUsers |-> <<>>, LdapGroupNames |-> <<>>],
     [Users |-> <<>>, SamlUsers |-> <<"Bob">>, LdapGroupNames |-> <<>>],
     [Users |-> <<>>, SamlUsers |-> <<>>, LdapGroupNames |-> <<"space-devs">>]}

\* Memberships a role may have on the platform at the start of a run.
RunMembers == {{}, {"alice", "carol"}}

OrgConfigs ==
    {[Org |-> OrgName, RemoveUsers |-> r, Roles |-> roles]
     : r \in BOOLEAN, roles \in [OrgKinds -> RunDesired]}

SpaceConfigs ==
    {[Org |-> OrgName, Space |-> SpaceName, RemoveUsers |-> r, Roles |-> roles]
     : r \in BOOLEAN, roles \in [SpaceKinds -> RunDesired]}

\* Config lists of a run: one config, or a config whose three roles carry the
\* same desired membership followed by a second config for the same target.
ConfigLists(configs, kinds) ==
    {<<c>> : c \in configs} \cup
    {<<c, c>> : c \in {x \in configs :
                         \A j, k \in kinds : x.Roles[j] = x.Roles[k]}}

\* The part of the initial state every run shares.
InitRun ==
    /\ Peek \in BOOLEAN
    /\ LdapConfig \in {"nil", "set"}
    /\ uaaRemote \in {U \cup {"carol"} : U \in SUBSET {"alice", "bob"}}
    /\ uaaUsers = {}
    /\ ldapGroups = [g \in Groups |-> <<"bob">>]
    /\ orgExists \in BOOLEAN
    /\ remoteSpaces \in IF orgExists THEN {{}, {SpaceName}} ELSE {{}}
    /\ input = [Kind |-> "", SpaceName |-> "", SpaceGUID |-> <<>>,
                OrgName |-> "", OrgGUID |-> <<>>, LdapGroupNames |-> <<>>,
                Users |-> <<>>, SamlUsers |-> <<>>, RemoveUsers |-> FALSE]
    /\ roleUsers = {}
    /\ listed = {}
    /\ ldapUsers = <<>>
    /\ ranged = {}
    /\ idx = 1
    /\ err = "nil"
    /\ callNo = 0
    /\ calls = <<>>
    /\ cfgIdx = 1
    /\ roleIdx = 1
    /\ target = NoTarget
    /\ orgUserList = {}
    /\ usersInRoles = {}
    /\ dryRun = NoDryRun
    /\ listedSpaces = {}
    /\ flags = NoFlags
    /\ ignoredOrgs = {}
    /\ order = CodeOrder

\* The platform holds members only for roles of targets that exist.
MembersOf(kinds, choices) ==
    {[k \in RoleKinds |-> IF k \in kinds THEN m[k] ELSE {}]
     : m \in [kinds -> choices]}

AllMembers(members) == UNION {members[k] : k \in RoleKinds}

InitUpdateOrgUsers ==
    /\ InitRun
    /\ cmd = "UpdateOrgUsers"
    /\ pc = "UpdateOrgUsers"
    /\ \E cs \in ConfigLists(OrgConfigs, OrgKinds) :
         cfg = [orgs |-> cs, spaces |-> <<>>,
                spaceLists |-> <<>>]
    /\ roleMembers \in MembersOf(IF orgExists THEN OrgKinds ELSE {}, RunMembers)
    /\ orgUsers = AllMembers(roleMembers)

InitUpdateSpaceUsers ==
    /\ InitRun
    /\ cmd = "UpdateSpaceUsers"
    /\ pc = "UpdateSpaceUsers"
    /\ \E cs \in ConfigLists(SpaceConfigs, SpaceKinds) :
         cfg = [orgs |-> <<>>, spaces |-> cs,
                spaceLists |-> <<>>]
    /\ roleMembers \in MembersOf(IF spaceExists THEN SpaceKinds ELSE {},
                                  RunMembers)
    /\ orgUsers = AllMembers(roleMembers)

InitCleanupOrgUsers ==
    /\ InitRun
    /\ LdapConfig = "set"
    /\ uaaRemote = {"alice", "bob", "carol"}
    /\ cmd = "CleanupOrgUsers"
    /\ pc = "CleanupOrgUsers"
    /\ \E c \in OrgConfigs :
         /\ \A k \in OrgKinds : c.Roles[k].Users # <<>>
         /\ cfg = [orgs |-> <<c>>, spaces |-> <<>>,
                spaceLists |-> <<>>]
    /\ roleMembers \in MembersOf((IF orgExists THEN OrgKinds ELSE {}) \cup
                                  (IF spaceExists THEN SpaceKinds ELSE {}),
                                  {{}, {"alice"}})
    /\ \E extra \in SUBSET {"Bob", "carol"} :
         orgUsers = IF orgExists THEN AllMembers(roleMembers) \cup extra ELSE {}

Init == InitUpdateOrgUsers \/ InitUpdateSpaceUsers \/ InitCleanupOrgUsers

Next ==
    \/ SyncUsers
    \/ UpdateOrgUsers
    \/ updateOrgUsers
    \/ updateOrgUsersNext
    \/ UpdateSpaceUsers
    \/ updateSpaceUsers
    \/ updateSpaceUsersNext
    \/ CleanupOrgUsers
    \/ cleanupOrgUsers
    \/ cleanupOrgUsersLoop

Spec == Init /\ [][Next]_vars

\* ------------------------------------------------------------ space management
\* Names a space may have, on the platform or in the configuration.
SpaceNames == {"dev", "Dev", "test"}

\* State of the user reconciliation, untouched by space management.
userVars == <<Peek, LdapConfig, uaaUsers, uaaRemote, roleMembers, orgUsers,
              ldapGroups, cmd, input, roleUsers, listed, ldapUsers, callNo,
              orgExists, cfg, roleIdx, orgUserList, usersInRoles, dryRun, order,
              cliVars>>

\* doesSpaceExist
doesSpaceExist(spaces, spaceName) ==
    \E space \in spaces : EqualFold(space, spaceName)

\* The loop over the configs goes to its next element, or the command
\* returns nil after the last one.
NextSpaceList(again) ==
    /\ pc' = IF cfgIdx < Len(cfg.spaceLists) THEN again ELSE "done"
    /\ cfgIdx' = IF cfgIdx < Len(cfg.spaceLists) THEN cfgIdx + 1 ELSE cfgIdx

\* m.Cfg.Spaces() at the start of CreateSpaces / DeleteSpaces.
LoadSpaceLists(first) ==
    /\ \E ok \in BOOLEAN :
         /\ err' = IF ok THEN "nil" ELSE "ConfigurationError"
         /\ pc' = IF ok /\ cfg.spaceLists # <<>> THEN first ELSE "done"
    /\ cfgIdx' = 1
    /\ UNCHANGED <<userVars, remoteSpaces, listedSpaces, idx, ranged, calls,
                   target>>

\* CreateSpaces, up to the loop over the configs.
CreateSpaces ==
    /\ pc = "CreateSpaces"
    /\ LoadSpaceLists("createSpacesOrg")

\* CreateSpaces, one config up to the loop over its space names: GetOrgGUID
\* and ListSpaces.
createSpacesOrg ==
    /\ pc = "createSpacesOrg"
    /\ LET in == cfg.spaceLists[cfgIdx] IN
       IF Len(in.Spaces) = 0
       THEN /\ NextSpaceList("createSpacesOrg")
            /\ UNCHANGED <<calls, err, listedSpaces, idx>>
       ELSE IF ~orgExists
       THEN /\ calls' = Append(calls, Call("GetOrgGUID", "", <<>>, in.Org, FALSE))
            /\ err' = "NotFoundError"
            /\ pc' = "done"
            /\ UNCHANGED <<cfgIdx, listedSpaces, idx>>
       ELSE \E ok \in BOOLEAN :
              /\ calls' = calls \o
                   <<Call("GetOrgGUID", "", <<>>, in.Org, TRUE),
                     Call("ListSpaces", "", RealOrgGUID, "", ok)>>
              /\ IF ok
                 THEN /\ listedSpaces' = RemoteSpaces
                      /\ idx' = 1
                      /\ pc' = "createSpacesLoop"
                      /\ UNCHANGED <<cfgIdx, err>>
                 ELSE \* continue
                      /\ NextSpaceList("createSpacesOrg")
                      /\ UNCHANGED <<err, listedSpaces, idx>>
    /\ UNCHANGED <<userVars, remoteSpaces, ranged, target>>

\* CreateSpace: outcomes [calls, err, remoteSpaces].
CreateSpace(spaceName, orgName, orgGUID) ==
    IF Peek
    THEN {[calls |-> <<Call("CreateSpace", "", orgGUID, spaceName, TRUE)>>,
           err |-> "nil", remoteSpaces |-> remoteSpaces]}
    ELSE {[calls |-> <<Call("CreateSpace", "", orgGUID, spaceName, ok),
                       Call("ClientCreateSpace", "", orgGUID, spaceName, ok)>>,
           err |-> IF ok THEN "nil" ELSE "RemoteOperationError",
           remoteSpaces |-> IF ok THEN remoteSpaces \cup {spaceName}
                            ELSE remoteSpaces]
          : ok \in IF spaceName \in remoteSpaces THEN {FALSE} ELSE BOOLEAN}

\* CreateSpaces, one iteration of the loop over the space names of a config.
createSpacesLoop ==
    /\ pc = "createSpacesLoop"
    /\ LET in == cfg.spaceLists[cfgIdx] IN
       IF idx > Len(in.Spaces)
       THEN /\ NextSpaceList("createSpacesOrg")
            /\ UNCHANGED <<calls, err, remoteSpaces, idx>>
       ELSE IF doesSpaceExist(listedSpaces, in.Spaces[idx])
       THEN /\ idx' = idx + 1
            /\ UNCHANGED <<calls, err, remoteSpaces, pc, cfgIdx>>
       ELSE \E o \in CreateSpace(in.Spaces[idx], in.Org, RealOrgGUID) :
              /\ calls' = calls \o o.calls
              /\ err' = o.err
              /\ remoteSpaces' = o.remoteSpaces
              /\ pc' = IF o.err = "nil" THEN pc ELSE "done"
              /\ idx' = IF o.err = "nil" THEN idx + 1 ELSE idx
              /\ UNCHANGED cfgIdx
    /\ UNCHANGED <<userVars, listedSpaces, ranged, target>>

\* DeleteSpaces, up to the loop over the configs.
DeleteSpaces ==
    /\ pc = "DeleteSpaces"
    /\ LoadSpaceLists("deleteSpacesOrg")

\* Variant: every listed space is collected for deletion.
spacesToDelete_All(spaces, in) == spaces

\* The spaces DeleteSpaces collects for deletion.
spacesToDelete(spaces, in) == {space \in spaces : space \notin Range(in.Spaces)}

\* DeleteSpaces, one config up to the loop over the spaces to delete.
deleteSpacesOrg ==
    /\ pc = "deleteSpacesOrg"
    /\ LET in == cfg.spaceLists[cfgIdx] IN
       IF ~in.EnableDeleteSpaces
       THEN /\ NextSpaceList("deleteSpacesOrg")
            /\ UNCHANGED <<calls, err, listedSpaces, target>>
       ELSE \E f \in FindOrg(in.Org) :
              /\ target' = f.found
              /\ IF f.err # "nil"
                 THEN /\ calls' = calls \o f.calls
                      /\ err' = f.err
                      /\ pc' = "done"
                      /\ UNCHANGED <<cfgIdx, listedSpaces>>
                 ELSE \E ok \in BOOLEAN :
                        /\ calls' = calls \o f.calls \o
                             <<Call("ListSpaces", "", f.found.Guid, "", ok)>>
                        /\ err' = IF ok THEN "nil" ELSE "RemoteOperationError"
                        /\ pc' = IF ok THEN "deleteSpacesLoop" ELSE "done"
                        /\ listedSpaces' = IF ok THEN RemoteSpaces
                                           ELSE listedSpaces
                        /\ UNCHANGED cfgIdx
    /\ ranged' = {}
    /\ UNCHANGED <<userVars, remoteSpaces, idx>>

\* DeleteSpace: outcomes [calls, err, remoteSpaces].
DeleteSpace(space, orgName) ==
    IF Peek
    THEN {[calls |-> <<Call("DeleteSpace", "", <<space, "guid">>, space, TRUE)>>,
           err |-> "nil", remoteSpaces |-> remoteSpaces]}
    ELSE {[calls |-> <<Call("DeleteSpace", "", <<space, "guid">>, space, ok),
                       Call("ClientDeleteSpace", "", <<space, "guid">>, space, ok)>>,
           err |-> IF ok THEN "nil" ELSE "RemoteOperationError",
           remoteSpaces |-> IF ok THEN remoteSpaces \ {space} ELSE remoteSpaces]
          : ok \in BOOLEAN}

\* DeleteSpaces, one iteration of the loop over the spaces to delete.
deleteSpacesLoop ==
    /\ pc = "deleteSpacesLoop"
    /\ LET in == cfg.spaceLists[cfgIdx]
           todo == spacesToDelete(listedSpaces, in) \ ranged IN
       IF todo = {}
       THEN /\ NextSpaceList("deleteSpacesOrg")
            /\ UNCHANGED <<calls, err, remoteSpaces, ranged>>
       ELSE \E space \in todo :
              \E o \in DeleteSpace(space, in.Org) :
                /\ calls' = calls \o o.calls
                /\ err' = o.err
                /\ remoteSpaces' = o.remoteSpaces
                /\ ranged' = ranged \cup {space}
                /\ pc' = IF o.err = "nil" THEN pc ELSE "done"
                /\ UNCHANGED cfgIdx
    /\ UNCHANGED <<userVars, listedSpaces, idx, target>>

\* A direct call of FindSpace for a space name of the configuration.
FindSpaceCall ==
    /\ pc = "FindSpace"
    /\ \E spaceName \in Range(cfg.spaceLists[1].Spaces) :
         \E f \in FindSpace(cfg.spaceLists[1].Org, spaceName) :
           /\ calls' = calls \o f.calls \o
                <<Call("FindSpace", "", f.found.Guid, spaceName, f.err = "nil")>>
           /\ err' = f.err
           /\ target' = f.found
    /\ pc' = "done"
    /\ UNCHANGED <<userVars, remoteSpaces, listedSpaces, cfgIdx, idx, ranged>>

\* Space lists an org config may carry.
SpaceListConfigs ==
    {[Org |-> OrgName, Spaces |-> names, EnableDeleteSpaces |-> e]
     : names \in SeqsUpTo(SpaceNames, MaxSpaces), e \in BOOLEAN}

\* The commands of space management a behaviour runs, one after the other.
SpaceCommands == {"CreateSpaces", "DeleteSpaces", "FindSpace"}

\* Number of commands a behaviour runs.
Commands == 3

InitSpaces ==
    /\ InitRun
    /\ LdapConfig = "set"
    /\ uaaRemote = {"carol"}
    /\ roleMembers = [k \in RoleKinds |-> {}]
    /\ orgUsers = {}
    /\ remoteSpaces \in IF orgExists THEN SUBSET SpaceNames ELSE {{}}
    /\ \E c \in SpaceListConfigs :
         cfg = [orgs |-> <<>>, spaces |-> <<>>, spaceLists |-> <<c>>]
    /\ cmd \in SpaceCommands
    /\ pc = cmd

\* After a command has returned, the next command is run on the same
\* configuration by the same manager.
NextCommand ==
    /\ pc = "done"
    /\ cmd \in SpaceCommands
    /\ callNo < Commands - 1
    /\ \E next \in SpaceCommands :
         /\ cmd' = next
         /\ pc' = next
    /\ callNo' = callNo + 1
    /\ err' = "nil"
    /\ cfgIdx' = 1
    /\ idx' = 1
    /\ ranged' = {}
    /\ UNCHANGED <<Peek, LdapConfig, uaaUsers, uaaRemote, roleMembers, orgUsers,
                   ldapGroups, input, roleUsers, listed, ldapUsers, orgExists,
                   cfg, roleIdx, orgUserList, usersInRoles, dryRun, order,
                   remoteSpaces, listedSpaces, calls, target, cliVars>>

NextSpaces ==
    \/ CreateSpaces
    \/ createSpacesOrg
    \/ createSpacesLoop
    \/ DeleteSpaces
    \/ deleteSpacesOrg
    \/ deleteSpacesLoop
    \/ FindSpaceCall
    \/ NextCommand

SpecSpaces == InitSpaces /\ [][NextSpaces]_vars

\* ---------------------------------------------------------------- import-config
\* Number of times --excluded-org is given on the command line at most.
MaxExcluded == 2

\* Names of the environment variables of the flags.
configDir == "CONFIG_DIR"

\* getFlag: lower case, "_" replaced by "-".
getFlag(in) ==
    CASE in = "CONFIG_DIR" -> "config-dir"
      [] in = "ORG" -> "org"
      [] in = "ORG_BILLING_MGR_GRP" -> "org-billing-mgr-grp"
      [] in = "ORG_MGR_GRP" -> "org-mgr-grp"
      [] in = "ORG_AUDITOR_GRP" -> "org-auditor-grp"
      [] OTHER -> in

\* The flags CreateImportConfigCommand declares as cli.StringSliceFlag; the
\* flags of defaultFlags are cli.StringFlag.
StringSliceFlags == {"excluded-org"}

\* cli.Context.StringSlice: outcomes [panic, value]. The value of a flag that
\* is not declared as a string slice is asserted to be one by the lookup,
\* which panics or yields nil depending on the version of the cli package.
StringSlice(c, name) ==
    IF name \notin DOMAIN c
    THEN {[panic |-> FALSE, value |-> <<>>]}
    ELSE IF name \in StringSliceFlags
    THEN {[panic |-> FALSE, value |-> c[name]]}
    ELSE {[panic |-> TRUE, value |-> <<>>], [panic |-> FALSE, value |-> <<>>]}

\* runImportConfig
runImportConfig ==
    /\ pc = "runImportConfig"
    /\ \E initialized \in BOOLEAN :
         IF ~initialized
         THEN /\ err' = "InitializeError"
              /\ pc' = "done"
              /\ UNCHANGED <<ignoredOrgs, calls>>
         ELSE \E ignoreOrgs \in StringSlice(flags, getFlag(configDir)) :
                IF ignoreOrgs.panic
                THEN /\ ignoredOrgs' = {"system"}
                     /\ pc' = "panic"
                     /\ UNCHANGED <<err, calls>>
                ELSE /\ ignoredOrgs' = {"system"} \cup Range(ignoreOrgs.value)
                     /\ \E imported \in BOOLEAN :
                          /\ calls' = Append(calls,
                               Call("ImportConfig", "", <<>>, ignoredOrgs',
                                    imported))
                          /\ err' = IF imported THEN "nil" ELSE "ImportError"
                     /\ pc' = "done"
    /\ UNCHANGED <<Peek, LdapConfig, uaaUsers, uaaRemote, roleMembers, orgUsers,
                   ldapGroups, cmd, input, roleUsers, listed, ldapUsers, ranged,
                   idx, callNo, orgExists, remoteSpaces, cfg, cfgIdx, roleIdx,
                   target, orgUserList, usersInRoles, dryRun, order,
                   listedSpaces, flags>>

\* Org names given through --excluded-org, and values of --config-dir.
ExcludedOrgNames == {"system", "org1", "org2"}
ConfigDirs == {"config", "org1", "org2"}

InitImport ==
    /\ Peek = FALSE
    /\ LdapConfig = "nil"
    /\ uaaRemote = {}
    /\ uaaUsers = {}
    /\ roleMembers = [k \in RoleKinds |-> {}]
    /\ orgUsers = {}
    /\ ldapGroups = [g \in Groups |-> <<>>]
    /\ orgExists = TRUE
    /\ remoteSpaces = {}
    /\ input = [Kind |-> "", SpaceName |-> "", SpaceGUID |-> <<>>,
                OrgName |-> "", OrgGUID |-> <<>>, LdapGroupNames |-> <<>>,
                Users |-> <<>>, SamlUsers |-> <<>>, RemoveUsers |-> FALSE]
    /\ roleUsers = {}
    /\ listed = {}
    /\ ldapUsers = <<>>
    /\ ranged = {}
    /\ idx = 1
    /\ err = "nil"
    /\ callNo = 0
    /\ calls = <<>>
    /\ cfg = [orgs |-> <<>>, spaces |-> <<>>, spaceLists |-> <<>>]
    /\ cfgIdx = 1
    /\ roleIdx = 1
    /\ target = NoTarget
    /\ orgUserList = {}
    /\ usersInRoles = {}
    /\ dryRun = NoDryRun
    /\ listedSpaces = {}
    /\ order = CodeOrder
    /\ \E dir \in ConfigDirs, excluded \in SeqsUpTo(ExcludedOrgNames, MaxExcluded) :
         flags = [name \in {"config-dir", "excluded-org"} |->
                    IF name = "config-dir" THEN dir ELSE excluded]
    /\ ignoredOrgs = {}
    /\ cmd = "import-config"
    /\ pc = "runImportConfig"

NextImport == runImportConfig

SpecImport == InitImport /\ [][NextImport]_vars

\* ------------------------------------------------------------ add-org-to-config
orgName == "ORG"
orgBillingMgrGrp == "ORG_BILLING_MGR_GRP"
orgMgrGrp == "ORG_MGR_GRP"
orgAuditorGrp == "ORG_AUDITOR_GRP"

\* The flags CreateAddOrgCommand declares.
AddOrgFlags == {getFlag(configDir), getFlag(orgName), getFlag(orgBillingMgrGrp),
                getFlag(orgMgrGrp), getFlag(orgAuditorGrp)}

\* cli.Context.String: the value of a declared flag, "" otherwise.
String(c, name) == IF name \in DOMAIN c THEN c[name] ELSE ""

\* The config.OrgConfig runAddOrg builds from the flags.
OrgConfigOf(c) ==
    [OrgName |-> String(c, getFlag(orgName)),
     OrgBillingMgrLDAPGrp |-> String(c, getFlag(orgBillingMgrGrp)),
     OrgMgrLDAPGrp |-> String(c, getFlag(orgMgrGrp)),
     OrgAuditorLDAPGrp |-> String(c, getFlag(orgAuditorGrp))]

\* `var cfMgmt *CFMgmt` in runAddOrg: declared, never assigned.
cfMgmtOfAddOrg == "nil"

\* runAddOrg
runAddOrg ==
    /\ pc = "runAddOrg"
    /\ LET orgConfig == OrgConfigOf(flags) IN
       IF cfMgmtOfAddOrg = "nil"
       THEN \* cfMgmt.ConfigManager dereferences the nil pointer
            /\ pc' = "panic"
            /\ UNCHANGED <<calls, err>>
       ELSE \E added \in BOOLEAN :
              /\ calls' = Append(calls,
                   Call("AddOrgToConfig", "", <<>>, orgConfig, added))
              /\ err' = IF added THEN "nil" ELSE "ConfigurationError"
              /\ pc' = "done"
    /\ UNCHANGED <<Peek, LdapConfig, uaaUsers, uaaRemote, roleMembers, orgUsers,
                   ldapGroups, cmd, input, roleUsers, listed, ldapUsers, ranged,
                   idx, callNo, driverVars>>

\* Values of --org and of the three group flags; "" is a flag not given.
AddOrgNames == {"", "org1", "org2"}
AddOrgGroups == {"", "grp1", "grp2"}

InitAddOrg ==
    /\ Peek = FALSE
    /\ LdapConfig = "nil"
    /\ uaaRemote = {}
    /\ uaaUsers = {}
    /\ roleMembers = [k \in RoleKinds |-> {}]
    /\ orgUsers = {}
    /\ ldapGroups = [g \in Groups |-> <<>>]
    /\ orgExists = TRUE
    /\ remoteSpaces = {}
    /\ input = [Kind |-> "", SpaceName |-> "", SpaceGUID |-> <<>>,
                OrgName |-> "", OrgGUID |-> <<>>, LdapGroupNames |-> <<>>,
                Users |-> <<>>, SamlUsers |-> <<>>, RemoveUsers |-> FALSE]
    /\ roleUsers = {}
    /\ listed = {}
    /\ ldapUsers = <<>>
    /\ ranged = {}
    /\ idx = 1
    /\ err = "nil"
    /\ callNo = 0
    /\ calls = <<>>
    /\ cfg = [orgs |-> <<>>, spaces |-> <<>>, spaceLists |-> <<>>]
    /\ cfgIdx = 1
    /\ roleIdx = 1
    /\ target = NoTarget
    /\ orgUserList = {}
    /\ usersInRoles = {}
    /\ dryRun = NoDryRun
    /\ listedSpaces = {}
    /\ order = CodeOrder
    /\ \E org \in AddOrgNames, grps \in [AddOrgFlags \ {"config-dir", "org"}
                                          -> AddOrgGroups] :
         flags = [name \in AddOrgFlags |->
                    IF name = "config-dir" THEN "config"
                    ELSE IF name = "org" THEN org ELSE grps[name]]
    /\ ignoredOrgs = {}
    /\ cmd = "add-org-to-config"
    /\ pc = "runAddOrg"

NextAddOrg == runAddOrg

SpecAddOrg == InitAddOrg /\ [][NextAddOrg]_vars

\* ------------------------------------------- a dry-run followed by the real run
\* A dry-run of UpdateOrgUsers / UpdateSpaceUsers on existing targets.
InitCompare ==
    /\ InitUpdateOrgUsers \/ InitUpdateSpaceUsers
    /\ Peek
    /\ orgExists
    /\ spaceExists

\* The (target, role, principal) triples of the calls of op made so far.
Intents(op) ==
    {<<calls[i].guid, calls[i].kind, calls[i].user>> :
        i \in {j \in DOMAIN calls : calls[j].op = op}}

\* Errors of a run that no failed remote call caused.
LocalOutcomes == {"nil", "UnknownPrincipal", "UnknownGroupMember"}

\* After the dry-run, the same command is run by a manager constructed with
\* peek = false, on the same configuration, directory and platform state.
Rerun ==
    /\ pc = "done"
    /\ Peek
    /\ err \in LocalOutcomes
    /\ Peek' = FALSE
    /\ pc' = cmd
    /\ dryRun' = [done |-> TRUE, adds |-> Intents("AddUser"),
                  removes |-> Intents("RemoveUser")]
    /\ calls' = <<>>
    /\ uaaUsers' = {}
    /\ err' = "nil"
    /\ callNo' = 0
    /\ cfgIdx' = 1
    /\ roleIdx' = 1
    /\ target' = NoTarget
    /\ roleUsers' = {}
    /\ listed' = {}
    /\ ldapUsers' = <<>>
    /\ ranged' = {}
    /\ idx' = 1
    /\ UNCHANGED <<LdapConfig, uaaRemote, roleMembers, orgUsers, ldapGroups,
                   cmd, input, orgExists, remoteSpaces, cfg, orgUserList,
                   usersInRoles, order, listedSpaces,
                   cliVars>>

NextCompare ==
    \/ SyncUsers
    \/ UpdateOrgUsers
    \/ updateOrgUsers
    \/ updateOrgUsersNext
    \/ UpdateSpaceUsers
    \/ updateSpaceUsers
    \/ updateSpaceUsersNext
    \/ Rerun

SpecCompare == InitCompare /\ [][NextCompare]_vars

\* -------------------------------------- SyncUsers with its sync steps permuted
\* The orders in which the three sync steps can be run.
Orders ==
    {o \in [1..3 -> Range(CodeOrder)] : \A i, j \in 1..3 : o[i] = o[j] => i = j}

\* One non-dry-run SyncUsers call on an existing target, its sync steps run
\* in any order.
InitOrder ==
    /\ InitSyncCall
    /\ ~Peek
    /\ input.Kind = "space-developer"
    /\ order \in Orders

NextOrder == SyncUsers

SpecOrder == InitOrder /\ [][NextOrder]_vars

\* ------------------------------------------------------------------ properties
\* Positions in `calls` of the calls of operation op made by SyncUsers call n.
SyncCalls(op, n) == {i \in DOMAIN calls : calls[i].op = op /\ calls[i].sync = n}

\* Positions of the calls of op in call n whose user case-folds to key.
KeyCalls(op, n, key) == {i \in SyncCalls(op, n) : ToLower(calls[i].user) = key}

\* Case-folded names of the principals the three desired sources name.
DesiredKeys(in) ==
    {ToLower(u) : u \in Range(in.Users) \cup Range(in.SamlUsers)
                        \cup Range(ResolveMembers(in.LdapGroupNames))}

\* A CreateExternalUser call for userName failed in SyncUsers call n.
ProvisioningFailed(userName, n) ==
    \E i \in SyncCalls("CreateExternalUser", n) :
        ~calls[i].ok /\ ToLower(calls[i].user) = ToLower(userName)

Succeeded == pc = "return" /\ err = "nil"

\* C1 Removal gating: a SyncUsers call whose RemoveUsers flag is false issues
\* no RemoveUser call (and no client remove), whatever the extraneous set.
C1_RemovalGating ==
    ~input.RemoveUsers =>
        \A i \in DOMAIN calls :
            calls[i].op \notin {"RemoveUser", "RemoveRoleByUsername"}

C1_Witness ==
    /\ Succeeded
    /\ ~input.RemoveUsers
    /\ SyncCalls("AddUser", callNo) # {}
    /\ listed \ DesiredKeys(input) # {}
    /\ roleUsers = listed \ DesiredKeys(input)

\* C2 (as stated) Subset guarantee: after a successful non-dry-run SyncUsers
\* every principal of the three desired sources is a member of the role.
C2_SubsetGuarantee_AsStated ==
    (Succeeded /\ ~Peek) =>
        \A u \in Range(input.Users) \cup Range(input.SamlUsers)
                  \cup Range(ResolveMembers(input.LdapGroupNames)) :
            IsMember(roleMembers[input.Kind], u)

\* C2 (amended) Subset guarantee: after a successful non-dry-run SyncUsers
\* every desired internal user, every resolved group member and every
\* federated user for whom no CreateExternalUser call failed during the call is
\* a member of the role.
C2_SubsetGuarantee ==
    (Succeeded /\ ~Peek) =>
        /\ \A u \in Range(input.Users)
                      \cup Range(ResolveMembers(input.LdapGroupNames)) :
              IsMember(roleMembers[input.Kind], u)
        /\ \A u \in Range(input.SamlUsers) :
              ProvisioningFailed(u, callNo)
              \/ IsMember(roleMembers[input.Kind], u)

C2_Witness ==
    /\ Succeeded
    /\ ~Peek
    /\ \E u \in Range(input.SamlUsers) :
         ProvisioningFailed(u, callNo) /\ ~IsMember(roleMembers[input.Kind], u)
    /\ \E u \in Range(input.Users) :
         /\ KeyCalls("AddUser", callNo, ToLower(u)) # {}
         /\ IsMember(roleMembers[input.Kind], u)

\* C3 Idempotence: after a successful non-dry-run SyncUsers, a second
\* SyncUsers with the same input and unchanged remote membership issues no
\* AddUser and no RemoveUser call (stated for runs in which no provisioning
\* was attempted, so that the directory is unchanged as well, and for inputs
\* without group names).
C3_Idempotence ==
    (/\ callNo = 2
     /\ input.LdapGroupNames = <<>>
     /\ \A i \in DOMAIN calls : calls[i].op # "CreateExternalUser") =>
        SyncCalls("AddUser", 2) \cup SyncCalls("RemoveUser", 2) = {}

\* C4 Untouched-on-match: within one SyncUsers call a principal that is in
\* the listed membership and named by a desired source receives neither an
\* AddUser nor a RemoveUser call.
C4_UntouchedOnMatch ==
    \A k \in listed \cap DesiredKeys(input) :
        KeyCalls("AddUser", callNo, k) \cup KeyCalls("RemoveUser", callNo, k) = {}

\* C5 Exact extraneous set: a SyncUsers call with RemoveUsers true that
\* completes the removal step calls RemoveUser exactly once for each listed
\* member named by no desired source, and for no other principal.
C5_ExactExtraneous ==
    (Succeeded /\ input.RemoveUsers) =>
        \A k \in Keys :
            Cardinality(KeyCalls("RemoveUser", callNo, k)) =
                IF k \in listed \ DesiredKeys(input) THEN 1 ELSE 0

\* C6 Add set equals the set difference: a successful SyncUsers call with no
\* provisioning failure calls AddUser exactly once for each distinct desired
\* principal that is not in the listed membership, and for no other principal.
C6_AddSetIsDifference ==
    (Succeeded /\ \A u \in Names : ~ProvisioningFailed(u, callNo)) =>
        \A k \in Keys :
            Cardinality(KeyCalls("AddUser", callNo, k)) =
                IF k \in DesiredKeys(input) \ listed THEN 1 ELSE 0

\* SyncInternalUsers is at a desired internal user absent from the directory.
AtUnknownInternal ==
    /\ pc = "SyncInternalUsers"
    /\ idx <= Len(input.Users)
    /\ ToLower(input.Users[idx]) \notin uaaUsers

\* C10 Unknown internal principal: when SyncInternalUsers reaches a desired
\* internal user whose case-folded name is not in the directory, SyncUsers
\* returns an error without any call for that principal (member of the role
\* or not), and no call for a later principal follows.
C10_UnknownInternalPrincipal ==
    [][/\ AtUnknownInternal =>
            (pc' = "return" /\ err' = "UnknownPrincipal" /\ calls' = calls
             /\ roleMembers' = roleMembers)
       /\ err = "UnknownPrincipal" =>
            (err' = err /\ calls' = calls /\ pc' = "done")]_vars

C10_Witness ==
    /\ pc = "return"
    /\ err = "UnknownPrincipal"
    /\ idx < Len(input.Users)
    /\ ToLower(input.Users[idx]) \in roleUsers

\* C7 Dry-run purity of platform mutations: with Peek set, no run of
\* UpdateOrgUsers, UpdateSpaceUsers or CleanupOrgUsers makes a mutating client
\* call, and every add, remove and cleanup removal reports success.
C7_DryRunPurity ==
    Peek =>
        \A i \in DOMAIN calls :
            /\ calls[i].op \notin ClientMutatingOps
            /\ calls[i].op \in {"AddUser", "RemoveUser", "CleanupUser"}
                   => calls[i].ok

C7_Witness ==
    /\ Peek
    /\ pc = "done"
    /\ err = "nil"
    /\ \E i, j \in DOMAIN calls :
         calls[i].op = "AddUser" /\ calls[j].op = "RemoveUser"

\* SyncSamlUsers is at a federated principal absent from the directory.
AtAbsentSaml ==
    /\ pc = "SyncSamlUsers"
    /\ idx <= Len(input.SamlUsers)
    /\ ToLower(input.SamlUsers[idx]) \notin uaaUsers
    /\ LdapConfig = "set"

\* C8 (as stated) Dry-run purity of provisioning: with Peek set,
\* CreateExternalUser is never invoked.
C8_NoProvisioningCall_AsStated ==
    Peek => \A i \in DOMAIN calls : calls[i].op # "CreateExternalUser"

\* C8 (amended) With Peek set, SyncSamlUsers still invokes
\* UAAMgr.CreateExternalUser for a federated principal absent from the
\* directory; the remote UAA is left unchanged by that call, and no mutating
\* client call follows it.
C8_ProvisioningInDryRun ==
    [][Peek =>
         /\ uaaRemote' = uaaRemote
         /\ AtAbsentSaml =>
              /\ Len(calls') > Len(calls)
              /\ calls'[Len(calls) + 1] =
                   Call("CreateExternalUser", input.Kind, TargetGUID(input),
                        input.SamlUsers[idx], TRUE)
              /\ \A i \in DOMAIN calls' :
                   calls'[i].op \notin ClientMutatingOps]_vars

C8_Witness ==
    /\ Peek
    /\ \E i \in DOMAIN calls :
         /\ calls[i].op = "CreateExternalUser"
         /\ ~IsMember(uaaRemote, calls[i].user)
         /\ i < Len(calls)
         /\ calls[i + 1].op = "AddUser"
         /\ calls[i + 1].user = calls[i].user

\* The org of the target of a role binding, as the run resolved it.
OrgGUIDOf(call) ==
    IF call.kind \in OrgKinds THEN call.guid
    ELSE IF call.guid = RealSpaceGUID THEN RealOrgGUID
    ELSE DryRunOrgGUID(OrgName)

\* C9 Two-phase add ordering: every role-association client call for a
\* principal is directly preceded, within the same add operation, by a
\* successful AssociateOrgUserByUsername for that principal on the target's
\* org; a failed org association is followed by no role association and the
\* add returns the error.
C9_TwoPhaseAdd ==
    \A i \in DOMAIN calls :
        /\ calls[i].op = "AssociateRoleByUsername" =>
             /\ i > 2
             /\ calls[i - 1].op = "AssociateOrgUserByUsername"
             /\ calls[i - 1].ok
             /\ calls[i - 1].user = calls[i].user
             /\ calls[i - 1].guid = OrgGUIDOf(calls[i])
             /\ calls[i - 2].op = "AddUser"
             /\ calls[i - 2].user = calls[i].user
             /\ calls[i - 2].kind = calls[i].kind
        /\ (calls[i].op = "AssociateOrgUserByUsername" /\ ~calls[i].ok) =>
             /\ i = Len(calls)
             /\ err = "RemoteOperationError"
             /\ pc \in {"return", "done"}
             /\ calls[i - 1].op = "AddUser"
             /\ ~calls[i - 1].ok

C9_Witness ==
    /\ ~Peek
    /\ pc = "done"
    /\ \A k \in SpaceKinds :
         \E i \in DOMAIN calls :
            /\ calls[i].op = "AssociateRoleByUsername"
            /\ calls[i].kind = k
            /\ calls[i].ok

\* C11 Provisioning failure is non-fatal: when CreateExternalUser fails for a
\* federated principal absent from the directory, the iteration issues no
\* AddUser (the failed provisioning call is its only call), raises no error
\* and moves to the next principal of the list; SyncSamlUsers ends only after
\* the last principal or on a failed add.
C11_ProvisioningNonFatal ==
    [][pc = "SyncSamlUsers" =>
         /\ (/\ AtAbsentSaml
             /\ Len(calls') > Len(calls)
             /\ ~calls'[Len(calls) + 1].ok) =>
                /\ calls' = Append(calls,
                       Call("CreateExternalUser", input.Kind, TargetGUID(input),
                            input.SamlUsers[idx], FALSE))
                /\ err' = "nil"
                /\ pc' = "SyncSamlUsers"
                /\ idx' = idx + 1
                /\ roleMembers' = roleMembers
         /\ pc' = "RemoveUsers" => idx > Len(input.SamlUsers)
         /\ pc' = "return" =>
                /\ err' = "RemoteOperationError"
                /\ calls'[Len(calls')].op \in ClientMutatingOps
                /\ ~calls'[Len(calls')].ok]_vars

\* A failed provisioning of the first federated principal was followed by the
\* add of the second one, and the call succeeded.
C11_Witness ==
    /\ Succeeded
    /\ Len(input.SamlUsers) = 2
    /\ ToLower(input.SamlUsers[1]) # ToLower(input.SamlUsers[2])
    /\ ProvisioningFailed(input.SamlUsers[1], callNo)
    /\ KeyCalls("AddUser", callNo, ToLower(input.SamlUsers[1])) = {}
    /\ KeyCalls("AddUser", callNo, ToLower(input.SamlUsers[2])) # {}

\* Operations of a run whose failure is fatal to it.
FatalOps == {"ListUsers", "AddUser", "RemoveUser", "FindOrg", "GetOrgGUID",
             "ListSpaces", "ResolveMembers"}

UpdateRun == cmd \in {"UpdateOrgUsers", "UpdateSpaceUsers"}

\* C12 Fail-fast without rollback: in UpdateOrgUsers and UpdateSpaceUsers the
\* first failed list, add, remove or target lookup, or an unknown principal,
\* ends the run with that error: the failed operation is the last one of the
\* run (only its own client calls follow it), and once the error is set no
\* call is made, nothing on the platform changes and the run only returns.
C12_FailFast ==
    /\ [](UpdateRun =>
            \A i \in DOMAIN calls :
                (calls[i].op \in FatalOps /\ ~calls[i].ok) =>
                    /\ err # "nil"
                    /\ pc \in {"return", "done"}
                    /\ \A j \in DOMAIN calls :
                          j > i => /\ calls[j].op \notin FatalOps
                                   /\ ~calls[j].ok
                                      \/ calls[j].op = "AssociateOrgUserByUsername"
                                   /\ calls[j].op \notin
                                        {"RemoveRoleByUsername",
                                         "RemoveOrgUserByUsername"}
                                        \/ calls[i].op = "RemoveUser")
    /\ [][(UpdateRun /\ err # "nil") =>
            /\ pc' = "done"
            /\ err' = err
            /\ calls' = calls
            /\ roleMembers' = roleMembers
            /\ orgUsers' = orgUsers
            /\ uaaRemote' = uaaRemote]_vars

\* A run that failed in its second role binding after an addition of the
\* first binding was applied: the addition stays and the third binding and
\* the second config were never started.
C12_Witness ==
    /\ UpdateRun
    /\ ~Peek
    /\ pc = "done"
    /\ err = "RemoteOperationError"
    /\ callNo = 2
    /\ Len(cfg.orgs) + Len(cfg.spaces) = 2
    /\ \E i \in SyncCalls("AssociateRoleByUsername", 1) :
         calls[i].ok /\ IsMember(roleMembers[calls[i].kind], calls[i].user)

\* The directory map of the run has been loaded.
Loaded == pc \notin {"UpdateOrgUsers", "UpdateSpaceUsers"}

\* The step provisions the federated principal SyncSamlUsers is at.
Provisions ==
    /\ AtAbsentSaml
    /\ Len(calls') > Len(calls)
    /\ calls'[Len(calls) + 1].op = "CreateExternalUser"
    /\ calls'[Len(calls) + 1].ok

C14_CanonicalKeys ==
    \A k \in roleUsers \cup uaaUsers : k = ToLower(k)

\* userName holds some org role or some role in the space of the org.
HoldsSomeRole(userName) ==
    \E k \in RoleKinds : IsMember(roleMembers[k], userName)

\* C15 Cleanup protects every role holder: cleanupOrgUsers never removes (nor,
\* in dry-run, logs the removal of) an org member who holds an org role or a
\* role in a space of the org, and a cleanup that completes has removed every
\* listed org member who holds none.
C15_CleanupProtectsRoleHolders ==
    cmd = "CleanupOrgUsers" =>
        /\ \A i \in DOMAIN calls :
              calls[i].op = "CleanupUser" => ~HoldsSomeRole(calls[i].user)
        /\ (pc = "done" /\ err = "nil") =>
              \A u \in orgUserList :
                  HoldsSomeRole(u) \/ \E i \in DOMAIN calls :
                                         /\ calls[i].op = "CleanupUser"
                                         /\ calls[i].user = u

\* C16 Cleanup is opt-in: for a configured org whose configuration does not
\* carry the opt-in flag (enable-remove-users), CleanupOrgUsers lists no org
\* members and issues no RemoveOrgUserByUsername call, executed or logged.
C16_CleanupOptIn ==
    cmd = "CleanupOrgUsers" =>
        \A c \in Range(cfg.orgs) :
            ~c.RemoveUsers =>
                \A i \in DOMAIN calls :
                    (calls[i].guid # <<>> /\ calls[i].guid[1] = c.Org) =>
                        calls[i].op \notin {"ListOrgUsers", "CleanupUser",
                                            "RemoveOrgUserByUsername"}

\* A dry-run of UpdateSpaceUsers whose org exists and whose space does not.
PlaceholderRun ==
    cmd = "UpdateSpaceUsers" /\ Peek /\ orgExists /\ ~spaceExists

\* C17 Dry-run placeholder targets: in dry-run, when the org exists and the
\* space does not, FindSpace returns a placeholder whose identifiers are built
\* from the space and org names; each role reconciliation on it makes no list
\* call to the platform client, works on an empty membership, makes no remove
\* and, when it completes, has logged (not executed) an add for every desired
\* principal known to the directory.
C17_DryRunPlaceholder ==
    PlaceholderRun =>
        /\ target # NoTarget =>
              target = [Name |-> SpaceName,
                        Guid |-> <<SpaceName, "dry-run-space-guid">>,
                        OrganizationGuid |-> <<OrgName, "dry-run-org-guid">>]
        /\ (pc = "updateSpaceUsers" /\ cfgIdx = 1) => calls = <<>>
        /\ listed = {}
        /\ \A i \in DOMAIN calls :
              /\ calls[i].op \notin {"ListRole", "RemoveUser"} \cup ClientMutatingOps
              /\ calls[i].op \in {"ListUsers", "AddUser"} =>
                    calls[i].ok /\ calls[i].guid = <<SpaceName, "dry-run-space-guid">>
        /\ Succeeded =>
              \A u \in Range(input.Users) \cup Range(input.SamlUsers)
                        \cup Range(ResolveMembers(input.LdapGroupNames)) :
                  ToLower(u) \in userListToMap(uaaRemote) =>
                      \E i \in KeyCalls("AddUser", callNo, ToLower(u)) :
                          calls[i].kind = input.Kind

C17_Witness ==
    /\ PlaceholderRun
    /\ pc = "done"
    /\ err = "nil"
    /\ cfg.spaces[1].RemoveUsers
    /\ \A k \in SpaceKinds :
         \E i \in DOMAIN calls :
            /\ calls[i].op = "AddUser"
            /\ calls[i].kind = k
            /\ calls[i].guid = DryRunSpaceGUID(SpaceName)

\* The call at position i ended the run with a not-found error and no target.
EndsRunNotFound(i) ==
    /\ i = Len(calls)
    /\ err = "NotFoundError"
    /\ pc = "done"
    /\ target = NoTarget

\* C18 Target resolution errors: in UpdateSpaceUsers, FindSpace fails when the
\* org GUID cannot be resolved, in dry-run and non-dry-run alike; when the
\* org is resolved and the listed spaces hold no space of the name, it fails
\* in non-dry-run mode and never yields a placeholder; after either failure
\* no list, add or remove call is made for the space and the run stops.
C18_TargetResolutionErrors ==
    cmd = "UpdateSpaceUsers" =>
        /\ \A i \in DOMAIN calls :
              /\ (calls[i].op = "GetOrgGUID" /\ ~calls[i].ok) => EndsRunNotFound(i)
              /\ (/\ calls[i].op = "ListSpaces"
                  /\ calls[i].ok
                  /\ ~Peek
                  /\ SpaceName \notin RemoteSpaces) => EndsRunNotFound(i)
        /\ ~Peek => /\ ~Contains(target.Guid, "dry-run-space-guid")
                    /\ ~Contains(target.OrganizationGuid, "dry-run-org-guid")
        /\ ~orgExists => /\ target = NoTarget
                          /\ callNo = 0
                          /\ \A i \in DOMAIN calls : calls[i].op = "GetOrgGUID"

\* A non-dry-run whose org is resolved and whose space is missing.
C18_Witness ==
    /\ cmd = "UpdateSpaceUsers"
    /\ ~Peek
    /\ orgExists
    /\ ~spaceExists
    /\ pc = "done"
    /\ err = "NotFoundError"
    /\ Len(calls) = 2
    /\ calls[2].op = "ListSpaces"
    /\ calls[2].ok

\* Calls that belong to the reconciliation of one role.
RoleCalls == {i \in DOMAIN calls : calls[i].kind # ""}

\* C19 (as stated) Org-before-space ordering: in every run, a space-role add
\* is issued only after the three org-role reconciliations of the org have
\* run.
C19_OrgBeforeSpace_AsStated ==
    \A i \in RoleCalls :
        (calls[i].op = "AddUser" /\ calls[i].kind \in SpaceKinds) =>
            \A k \in OrgKinds :
                \E j \in RoleCalls :
                    j < i /\ calls[j].op = "ListUsers" /\ calls[j].kind = k

\* C19 (amended) Org and space reconciliation are separate runs: a run of
\* UpdateOrgUsers reconciles org roles only, for each config in the order
\* billing manager, auditor, manager; a run of UpdateSpaceUsers reconciles
\* space roles only, for each config in the order developer, manager,
\* auditor, one role completing before the next begins; no run does both, so
\* space-role adds are issued in runs where no org-role reconciliation ran.
C19_SeparateRuns ==
    /\ cmd = "UpdateOrgUsers" =>
          \A i \in RoleCalls :
              /\ calls[i].sync > 0
              /\ calls[i].kind = OrgRoleOrder[((calls[i].sync - 1) % 3) + 1]
    /\ cmd = "UpdateSpaceUsers" =>
          \A i \in RoleCalls :
              /\ calls[i].sync > 0
              /\ calls[i].kind =
                   <<"space-developer", "space-manager",
                     "space-auditor">>[((calls[i].sync - 1) % 3) + 1]
    /\ UpdateRun =>
          \A i, j \in RoleCalls : i < j => calls[i].sync <= calls[j].sync

\* A completed non-dry-run of UpdateSpaceUsers that added a principal to each
\* space role, associating it with the org itself.
C19_Witness ==
    /\ cmd = "UpdateSpaceUsers"
    /\ ~Peek
    /\ pc = "done"
    /\ err = "nil"
    /\ \A k \in SpaceKinds :
         \E i \in RoleCalls :
            /\ calls[i].op = "AssociateOrgUserByUsername"
            /\ calls[i].kind = k
            /\ calls[i].ok
    /\ \A i \in RoleCalls : calls[i].kind \notin OrgKinds

\* The run that followed the dry-run is over and no remote call failed.
BothRunsClean ==
    /\ dryRun.done
    /\ pc = "done"
    /\ err \in LocalOutcomes
    /\ \A i \in DOMAIN calls : calls[i].ok

AbortedInSync(n) ==
    \/ \E i \in SyncCalls("ListUsers", n) \cup SyncCalls("AddUser", n) :
          ~calls[i].ok
    \/ /\ n = callNo
       /\ err \in {"UnknownPrincipal", "UnknownGroupMember", "GroupLookupError"}

\* C21 Step ordering inside one SyncUsers call: the member list is fetched
\* once, before any add or remove of the call; every AddUser call of the call
\* precedes every RemoveUser call of it; and a call that aborts in a sync step
\* issues no RemoveUser call.
C21_StepOrdering ==
    \A n \in 1..callNo :
        /\ Cardinality(SyncCalls("ListUsers", n)) =
              IF n = callNo /\ pc = "SyncUsers" THEN 0 ELSE 1
        /\ \A l \in SyncCalls("ListUsers", n) :
              \A i \in SyncCalls("AddUser", n) \cup SyncCalls("RemoveUser", n)
                        \cup SyncCalls("CreateExternalUser", n) : l < i
        /\ \A a \in SyncCalls("AddUser", n) :
              \A r \in SyncCalls("RemoveUser", n) : a < r
        /\ AbortedInSync(n) => SyncCalls("RemoveUser", n) = {}

C21_Witness ==
    /\ Succeeded
    /\ Cardinality(SyncCalls("AddUser", callNo)) = 2
    /\ Cardinality(SyncCalls("RemoveUser", callNo)) = 2

\* Number of times the desired sources of the input name key.
Mentions(in, key) ==
    LET count(seq) == Cardinality({i \in DOMAIN seq : ToLower(seq[i]) = key})
    IN count(in.Users) + count(in.SamlUsers)
         + count(ResolveMembers(in.LdapGroupNames))

\* C22 Source-order commutativity: a SyncUsers call that succeeds with no
\* provisioning failure issues, whichever order the three desired sources are
\* processed in, the same AddUser calls per principal (one for each mention
\* of a principal by a source, less one if the principal was a listed member)
\* and the same set of RemoveUser calls (the listed members no source names,
\* if removal is enabled), also when several sources name one principal.
C22_SourceOrderCommutes ==
    (Succeeded /\ \A u \in Names : ~ProvisioningFailed(u, callNo)) =>
        \A k \in Keys :
            /\ Cardinality(KeyCalls("AddUser", callNo, k)) =
                  Mentions(input, k) - (IF k \in listed /\ Mentions(input, k) > 0
                                        THEN 1 ELSE 0)
            /\ Cardinality(KeyCalls("RemoveUser", callNo, k)) =
                  IF input.RemoveUsers /\ k \in listed /\ Mentions(input, k) = 0
                  THEN 1 ELSE 0

\* The federated source ran before the internal one and both named a listed
\* member.
C22_Witness ==
    /\ Succeeded
    /\ order = <<"SyncSamlUsers", "SyncInternalUsers", "SyncLdapUsers">>
    /\ input.RemoveUsers
    /\ \E k \in listed :
         /\ k \in {ToLower(u) : u \in Range(input.Users)}
         /\ k \in {ToLower(u) : u \in Range(input.SamlUsers)}
         /\ Cardinality(KeyCalls("AddUser", callNo, k)) = 1
    /\ SyncCalls("RemoveUser", callNo) # {}

\* C23 No add-then-remove: within one SyncUsers call no principal receives
\* both an AddUser and a RemoveUser call, and every RemoveUser call of the
\* call in progress targets a principal of the membership its list returned.
C23_NoAddThenRemove ==
    /\ \A n \in 1..callNo :
          \A k \in Keys :
              KeyCalls("AddUser", n, k) = {} \/ KeyCalls("RemoveUser", n, k) = {}
    /\ \A i \in SyncCalls("RemoveUser", callNo) :
          /\ calls[i].user \in listed
          /\ \E l \in SyncCalls("ListUsers", callNo) : l < i /\ calls[l].ok

\* A call that added a principal named twice although it was listed, and
\* removed another listed member.
C23_Witness ==
    /\ Succeeded
    /\ input.RemoveUsers
    /\ \E k \in listed :
         /\ Mentions(input, k) = 2
         /\ KeyCalls("AddUser", callNo, k) # {}
    /\ SyncCalls("RemoveUser", callNo) # {}

\* C24 Provision at most once per run: within one run of UpdateOrgUsers or
\* UpdateSpaceUsers, once CreateExternalUser has succeeded for a federated
\* principal, no later CreateExternalUser call of the run is made for the same
\* principal, whatever the letter case of the configured e-mail.
C24_ProvisionAtMostOnce ==
    UpdateRun =>
        \A i, j \in DOMAIN calls :
            (/\ i < j
             /\ calls[i].op = "CreateExternalUser"
             /\ calls[i].ok
             /\ calls[j].op = "CreateExternalUser") =>
                ToLower(calls[i].user) # ToLower(calls[j].user)

\* C25 No dependence on LDAP initialisation order: a run of UpdateOrgUsers /
\* UpdateSpaceUsers that meets a federated principal absent from the identity
\* directory never crashes reading the origin of the LDAP configuration,
\* whether or not InitializeLdap was called before the run.
C25_NoCrashWithoutLdapConfig ==
    UpdateRun => pc # "panic"

\* ------------------------------------------------------------ space management
\* The org config of the space-management run.
SpaceList == cfg.spaceLists[1]

\* The DeleteSpaces command is in progress or has returned.
InDeleteSpaces == cmd = "DeleteSpaces"

\* C26 -- DeleteSpaces safety: a delete (the DeleteSpace method or the client
\* call) is issued only when the org's config has EnableDeleteSpaces set and
\* only for a space whose name is not in the configured space list; no step
\* of DeleteSpaces removes a space named in the configured list from the
\* platform; in dry-run no client DeleteSpace call is issued and the platform
\* keeps its spaces.
C26_DeleteSpacesSafety ==
    /\ [](\A i \in 1..Len(calls) :
            calls[i].op \in {"DeleteSpace", "ClientDeleteSpace"} =>
              /\ SpaceList.EnableDeleteSpaces
              /\ calls[i].user \notin Range(SpaceList.Spaces)
              /\ calls[i].op = "ClientDeleteSpace" => ~Peek)
    /\ [][InDeleteSpaces =>
            /\ \A s \in Range(SpaceList.Spaces) :
                 s \in remoteSpaces => s \in remoteSpaces'
            /\ Peek => remoteSpaces' = remoteSpaces]_vars

\* DeleteSpaces returned nil after deleting an unconfigured space while a
\* configured space is on the platform.
C26_Witness ==
    /\ InDeleteSpaces /\ pc = "done" /\ err = "nil"
    /\ \E i \in 1..Len(calls) :
         calls[i].op = "ClientDeleteSpace" /\ calls[i].ok
           /\ calls[i].sync = callNo
    /\ Range(SpaceList.Spaces) \cap remoteSpaces # {}

\* C27 -- CreateSpaces creates only missing spaces: no client CreateSpace
\* call is issued for a name that, letter case aside, is the name of a space
\* of the org at the time of the call, a space created earlier in the same
\* CreateSpaces call included; so one CreateSpaces call does not issue two
\* client CreateSpace calls for the same name.
C27_CreatesOnlyMissing ==
    /\ [][\A i \in (Len(calls) + 1)..Len(calls') :
            calls'[i].op = "ClientCreateSpace" =>
              ~doesSpaceExist(remoteSpaces, calls'[i].user)]_vars
    /\ [](\A i, j \in 1..Len(calls) :
            /\ i < j
            /\ calls[i].op = "ClientCreateSpace" /\ calls[i].ok
            /\ calls[j].op = "ClientCreateSpace"
            /\ calls[i].sync = calls[j].sync
            => ~EqualFold(calls[i].user, calls[j].user))

\* A non-dry-run CreateSpaces call has returned.
CreateSpacesReturned == cmd = "CreateSpaces" /\ pc = "done" /\ ~Peek

\* C28 -- CreateSpaces success means the spaces exist: when a non-dry-run
\* CreateSpaces call returns nil, every space name of the org's config is the
\* name of a space of the org, and a call whose ListSpaces failed does not
\* return nil.
C28_SuccessMeansSpacesExist ==
    CreateSpacesReturned =>
      /\ err = "nil" =>
           \A name \in Range(SpaceList.Spaces) :
             doesSpaceExist(remoteSpaces, name)
      /\ (\E i \in 1..Len(calls) :
            calls[i].op = "ListSpaces" /\ ~calls[i].ok
              /\ calls[i].sync = callNo) => err # "nil"

\* C29 -- Consistent space-name matching: a remote space that CreateSpaces
\* treats as existing for a configured name (doesSpaceExist) is found by a
\* non-dry-run FindSpace for that name whose lookups succeed, and no
\* DeleteSpace is issued for a remote space that doesSpaceExist matches with
\* a configured name.
C29_ConsistentMatching ==
    /\ [][pc = "FindSpace" /\ ~Peek =>
            \A i \in (Len(calls) + 1)..Len(calls') :
              /\ calls'[i].op = "FindSpace"
              /\ err' # "RemoteOperationError"
              /\ doesSpaceExist(remoteSpaces, calls'[i].user)
              => calls'[i].ok]_vars
    /\ [](\A i \in 1..Len(calls) :
            calls[i].op \in {"DeleteSpace", "ClientDeleteSpace"} =>
              \A name \in Range(SpaceList.Spaces) :
                ~doesSpaceExist({calls[i].user}, name))

\* ---------------------------------------------------------------- import-config
\* C30 -- import-config exclusions: the set of orgs passed to ImportConfig is
\* "system" together with every value of the excluded-org flag, and nothing
\* else.
C30_ImportExclusions ==
    \A i \in 1..Len(calls) :
      calls[i].op = "ImportConfig" =>
        calls[i].user = {"system"} \cup Range(flags["excluded-org"])

\* ------------------------------------------------------------ add-org-to-config
\* C31 -- add-org-to-config adds the org: once the action has ended it has
\* not crashed, it has called AddOrgToConfig exactly once, with the org config
\* that carries the values of the org and group flags, and its result is the
\* result of that call.
C31_AddOrgCallsManager ==
    cmd = "add-org-to-config" /\ pc # "runAddOrg" =>
      /\ pc = "done"
      /\ Len(calls) = 1
      /\ calls[1].op = "AddOrgToConfig"
      /\ calls[1].user = OrgConfigOf(flags)
      /\ calls[1].ok = (err = "nil")

====
